---- MODULE Spec2Model ----
(***************************************************************************)
(* Conference-program site: the program merger (ProgramPage.jsx            *)
(* programData), the slug generator (three copies of slugify), the talk    *)
(* lookup (the two TalkPage components), the calendar exporter (createICS,  *)
(* createICSForSession) and the program page's search and day filter       *)
(* (filtered).                                                             *)
(*                                                                         *)
(* Text is modelled as JavaScript strings are stored: a sequence of code   *)
(* units, each unit written as a one-token TLA+ string ("a", " ", and      *)
(* "U+2011" for a non-ASCII unit).  The JavaScript values null and         *)
(* undefined are the reserved one-token sequences Null and Undefined, so   *)
(* that a field of type string|null|undefined has a single TLA+ type.      *)
(* An array field that is absent is the empty sequence: every read of an   *)
(* optional array in the modelled code is of the form (x || []) or         *)
(* (x && x.length > 0), which cannot tell the two apart.                   *)
(***************************************************************************)
EXTENDS Integers, Sequences, FiniteSets, TLC

VARIABLES
    rawSessions,       \* sessions.js default export: structured records
    abstractModules,   \* import.meta.glob('./data/abstract/*.json'): bundles
    contributedRows,   \* Papa.parse(contributed_talks.csv).data
    programData,       \* ProgramPage: useMemo(..., []) result
    route,             \* HashRouter location: which page, and its params
    talkData,          \* TalkPage (ms-aware copy): useMemo([slug, msParam])
    talkDataSrc,       \* TalkPage (src/TalkPage.jsx copy): useMemo([slug])
    slugCall,          \* harness for the pure function slugify
    icsFile,           \* downloadICS(filename, ics): the last file handed over
    query,             \* ProgramPage: useState(""), the search box
    day                \* ProgramPage: useState("all"), the day selector

vars == <<rawSessions, abstractModules, contributedRows, programData,
          route, talkData, talkDataSrc, slugCall, icsFile, query, day>>

-----------------------------------------------------------------------------
(* JavaScript values and string primitives *)

Null == <<"#null">>

Undefined == <<"#undefined">>

\* ToBoolean on string|null|undefined
Truthy(v) == v # Null /\ v # Undefined /\ v # <<>>

\* a || b
Or(a, b) == IF Truthy(a) THEN a ELSE b

NullText ==
    <<"n","u","l","l">>

UndefinedText ==
    <<"u","n","d","e","f","i","n","e","d">>

\* String(v)
String(v) ==
    IF v = Null THEN NullText
    ELSE IF v = Undefined THEN UndefinedText
    ELSE v

LowerLetters ==
    <<"a","b","c","d","e","f","g","h","i","j","k","l","m","n","o","p","q","r","s","t","u","v",
      "w","x","y","z">>

UpperLetters ==
    <<"A","B","C","D","E","F","G","H","I","J","K","L","M","N","O","P","Q","R","S","T","U","V",
      "W","X","Y","Z">>

DigitChars ==
    <<"0","1","2","3","4","5","6","7","8","9">>

\* One code unit of String.prototype.toLowerCase.  Besides A-Z, two non-ASCII
\* units lower-case into ASCII: U+212A (Kelvin sign) to "k" and U+0130 to
\* "i" followed by U+0307.  Any other unit outside A-Z stays outside [a-z0-9].
toLowerCaseUnit(c) ==
    IF \E i \in 1..26 : UpperLetters[i] = c
    THEN <<LowerLetters[CHOOSE i \in 1..26 : UpperLetters[i] = c]>>
    ELSE IF c = "U+212A" THEN <<"k">>
    ELSE IF c = "U+0130" THEN <<"i", "U+0307">>
    ELSE <<c>>

\* String.prototype.toLowerCase, unit by unit (the string is split in halves)
RECURSIVE toLowerCase(_)
toLowerCase(s) ==
    IF Len(s) = 0 THEN <<>>
    ELSE IF Len(s) = 1 THEN toLowerCaseUnit(s[1])
    ELSE toLowerCase(SubSeq(s, 1, Len(s) \div 2))
         \o toLowerCase(SubSeq(s, (Len(s) \div 2) + 1, Len(s)))

AlnumUnits ==
    {LowerLetters[i] : i \in 1..26} \cup {DigitChars[i] : i \in 1..10}

\* the character class [a-z0-9]
IsAlnum(c) == c \in AlnumUnits

\* s.replace(/[^a-z0-9]+/g, '-'): a unit of [a-z0-9] stays, the first unit of
\* a maximal run of other units becomes '-', the rest of the run goes
ReplaceRuns(s) ==
    LET marked == [i \in 1..Len(s) |->
                     IF IsAlnum(s[i]) THEN [unit |-> s[i], keep |-> TRUE]
                     ELSE [unit |-> "-", keep |-> i = 1 \/ IsAlnum(s[i - 1])]]
        kept == SelectSeq(marked, LAMBDA m : m.keep)
    IN  [k \in 1..Len(kept) |-> kept[k].unit]

RECURSIVE DropLeading(_, _)
DropLeading(s, set) ==
    IF s # <<>> /\ Head(s) \in set THEN DropLeading(Tail(s), set) ELSE s

RECURSIVE DropTrailing(_, _)
DropTrailing(s, set) ==
    IF s # <<>> /\ s[Len(s)] \in set
    THEN DropTrailing(SubSeq(s, 1, Len(s) - 1), set)
    ELSE s

\* s.replace(/^-+|-+$/g, '')
StripHyphens(s) == DropTrailing(DropLeading(s, {"-"}), {"-"})

WhiteSpace == {" ", "\t", "\n", "\r", "U+00A0"}

\* String.prototype.trim
trim(s) == DropTrailing(DropLeading(s, WhiteSpace), WhiteSpace)

\* String.prototype.includes
includes(hay, needle) ==
    \E i \in 1..(Len(hay) - Len(needle) + 1) :
        SubSeq(hay, i, i + Len(needle) - 1) = needle

\* decimal digits of a natural number, as template literals print it
RECURSIVE NumberText(_)
NumberText(n) ==
    IF n < 10 THEN <<DigitChars[n + 1]>>
    ELSE NumberText(n \div 10) \o <<DigitChars[(n % 10) + 1]>>

-----------------------------------------------------------------------------
(* Slug generator: the copy inside ProgramPage and the copy of the TalkPages *)

\* the two replace steps applied in the wrong order
slugifyStripFirst(s) ==
    ReplaceRuns(StripHyphens(toLowerCase(String(Or(s, <<>>)))))

\* the trailing replace(/^-+|-+$/g, '') is left out
slugifyNoStrip(s) ==
    ReplaceRuns(toLowerCase(String(Or(s, <<>>))))

\* ProgramPage.jsx: String(s || '').toLowerCase().replace(..).replace(..)
slugify(s) ==
    StripHyphens(ReplaceRuns(toLowerCase(String(Or(s, <<>>)))))

\* TalkPage: String(s).toLowerCase().replace(..).replace(..)
slugifyTalk(s) ==
    StripHyphens(ReplaceRuns(toLowerCase(String(s))))

-----------------------------------------------------------------------------
(* Program merger: ProgramPage.jsx, programData = useMemo(() => ..., []) *)

DatePrefix ==
    <<"2","0","2","5","-","1","0","-">>

ZoneSuffix ==
    <<":","0","0","-","0","5",":","0","0">>

Pad2(n) == IF n < 10 THEN <<"0">> \o NumberText(n) ELSE NumberText(n)

\* the literal '2025-10-<d>T<hh>:<mm>:00-05:00'
Stamp(d, hh, mm) ==
    DatePrefix \o Pad2(d) \o <<"T">> \o Pad2(hh) \o <<":">> \o Pad2(mm) \o ZoneSuffix

TEMP_DAY_OVERRIDE == DatePrefix \o Pad2(11)

TEMP_SESSION_START == Stamp(11, 9, 0)

TEMP_SESSION_END == Stamp(11, 10, 30)

AmericaChicago ==
    <<"A","m","e","r","i","c","a","/","C","h","i","c","a","g","o">>

DefaultTitlePrefix ==
    <<"M","i","n","i","U+2011","S","y","m","p","o","s","i","u","m"," ">>

IdPrefixMS ==
    <<"M","S">>

IdPrefixSlug ==
    <<"M","S","-">>

SessionInfix ==
    <<"-","S">>

\* data.minisymposium_title || data.title
bundleTitle(data) == Or(data.minisymposium_title, data.title)

\* absMeta has the key: some bundle with a title slugifies to it
absMetaHas(mods, key) ==
    \E i \in 1..Len(mods) :
        Truthy(bundleTitle(mods[i])) /\ slugify(bundleTitle(mods[i])) = key

\* absMeta[key]: the reduce overwrites, so the last such bundle wins
absMeta(mods, key) ==
    LET hits == {i \in 1..Len(mods) :
                    Truthy(bundleTitle(mods[i])) /\ slugify(bundleTitle(mods[i])) = key}
        last == CHOOSE i \in hits : \A j \in hits : j <= i
    IN  [organizers |-> mods[last].organizers]

\* the legacy wrapper without the record's flat talks
sessionsArrayNoTalks(ms) ==
    IF Len(ms.sessions) > 0
    THEN ms.sessions
    ELSE <<[id |-> Undefined, start |-> ms.start, end |-> ms.end,
            chair |-> ms.chair, talks |-> <<>>]>>

\* ms.sessions when non-empty, else one session wrapping the legacy fields
sessionsArray(ms) ==
    IF Len(ms.sessions) > 0
    THEN ms.sessions
    ELSE <<[id |-> Undefined, start |-> ms.start, end |-> ms.end,
            chair |-> ms.chair, talks |-> ms.talks]>>

\* ms.minisymposium_title || ms.title || `Mini-Symposium ${i + 1}` (i is 1-based here)
structuredTitle(ms, i) ==
    Or(Or(ms.minisymposium_title, ms.title), DefaultTitlePrefix \o NumberText(i))

\* the abstract bundle's organizers are taken first
mergedOrganizersAbstractFirst(ms, i, mods) ==
    IF absMetaHas(mods, slugify(structuredTitle(ms, i)))
    THEN absMeta(mods, slugify(structuredTitle(ms, i))).organizers
    ELSE ms.organizers

mergedOrganizers(ms, i, mods) ==
    IF Len(ms.organizers) > 0
    THEN ms.organizers
    ELSE IF absMetaHas(mods, slugify(structuredTitle(ms, i)))
         THEN absMeta(mods, slugify(structuredTitle(ms, i))).organizers
         ELSE <<>>

\* (typeof iso === 'string' && iso.length >= 10) ? iso.slice(0,10) : null
extractDate(iso) ==
    IF iso # Null /\ iso # Undefined /\ Len(iso) >= 10 THEN SubSeq(iso, 1, 10) ELSE Null

\* sessionDates, in push order
RECURSIVE talkDates(_)
talkDates(ts) ==
    IF ts = <<>> THEN <<>>
    ELSE (IF Truthy(Head(ts).start) THEN <<extractDate(Head(ts).start)>> ELSE <<>>)
         \o talkDates(Tail(ts))

RECURSIVE sessionDates(_)
sessionDates(ss) ==
    IF ss = <<>> THEN <<>>
    ELSE (IF Truthy(Head(ss).start) THEN <<extractDate(Head(ss).start)>> ELSE <<>>)
         \o talkDates(Head(ss).talks)
         \o sessionDates(Tail(ss))

\* code-unit order of two strings, as Array.prototype.sort compares them;
\* the dates compared here are digits and '-' only
UnitRank(c) == IF c = "-" THEN 0 ELSE 1 + CHOOSE k \in 0..9 : DigitChars[k + 1] = c

RECURSIVE TextLess(_, _)
TextLess(a, b) ==
    IF b = <<>> THEN FALSE
    ELSE IF a = <<>> THEN TRUE
    ELSE IF Head(a) = Head(b) THEN TextLess(Tail(a), Tail(b))
    ELSE UnitRank(Head(a)) < UnitRank(Head(b))

\* a variant that reads the sessions' own start times only
msDaySessionsOnly(ms) ==
    LET ss == sessionsArray(ms)
        valid == {extractDate(ss[k].start) : k \in {j \in 1..Len(ss) : Truthy(ss[j].start)}}
                 \ {Null}
    IN  IF valid = {} THEN Null
        ELSE CHOOSE d \in valid : \A e \in valid : ~TextLess(e, d)

\* validDates.length ? validDates.sort()[0] : null
msDay(ms) ==
    LET dates == sessionDates(sessionsArray(ms))
        valid == {dates[k] : k \in 1..Len(dates)} \ {Null}
    IN  IF valid = {} THEN Null
        ELSE CHOOSE d \in valid : \A e \in valid : ~TextLess(e, d)

structuredTalk(t) ==
    [start |-> Or(t.start, Null), end |-> Or(t.end, Null),
     title |-> t.title, speakers |-> t.speakers]

structuredSession(ms, i, s, si) ==
    [id    |-> Or(s.id, Or(ms.id, IdPrefixMS \o NumberText(i))
                        \o SessionInfix \o NumberText(si)),
     start |-> Or(s.start, TEMP_SESSION_START),
     end   |-> Or(s.end, TEMP_SESSION_END),
     chair |-> Or(s.chair, Null),
     room  |-> Undefined,
     talks |-> [k \in 1..Len(s.talks) |-> structuredTalk(s.talks[k])]]

\* one element of fromSessions
fromSession(ms, i, mods) ==
    [id        |-> Or(ms.id, IdPrefixMS \o NumberText(i)),
     title     |-> structuredTitle(ms, i),
     organizers |-> mergedOrganizers(ms, i, mods),
     day       |-> Or(msDay(ms), TEMP_DAY_OVERRIDE),
     room      |-> Or(ms.room, Null),
     timezone  |-> Or(ms.timezone, AmericaChicago),
     sessions  |-> [si \in 1..Len(sessionsArray(ms)) |->
                      structuredSession(ms, i, sessionsArray(ms)[si], si)]]

fromSessions(raw, mods) ==
    [i \in 1..Len(raw) |-> fromSession(raw[i], i, mods)]

existingTitles(raw, mods) ==
    {slugify(fromSessions(raw, mods)[i].title) : i \in 1..Len(raw)}

\* the talk is given the placeholder times of its session
abstractTalkTimed(t) ==
    [start |-> TEMP_SESSION_START, end |-> TEMP_SESSION_END,
     title |-> t.title, speakers |-> t.speakers]

abstractTalk(t) ==
    [start |-> Null, end |-> Null, title |-> t.title, speakers |-> t.speakers]

\* the minisymposium synthesized from a bundle that has no structured entry
abstractOnly(data) ==
    [id        |-> IdPrefixSlug \o slugify(bundleTitle(data)),
     title     |-> bundleTitle(data),
     organizers |-> data.organizers,
     day       |-> TEMP_DAY_OVERRIDE,
     room      |-> Null,
     timezone  |-> AmericaChicago,
     sessions  |-> <<[id    |-> IdPrefixSlug \o slugify(bundleTitle(data))
                                   \o SessionInfix \o NumberText(1),
                      start |-> TEMP_SESSION_START,
                      end   |-> TEMP_SESSION_END,
                      chair |-> Null,
                      room  |-> Undefined,
                      talks |-> [k \in 1..Len(data.talks) |-> abstractTalk(data.talks[k])]]>>]

\* every bundle with a title is kept, whether or not a structured entry has it
keepsBundleAlways(data, existing) == Truthy(bundleTitle(data))

\* the flatMap callback returns [] unless this holds
keepsBundle(data, existing) ==
    /\ Truthy(bundleTitle(data))
    /\ slugify(bundleTitle(data)) \notin existing

RECURSIVE flatMapBundles(_, _)
flatMapBundles(mods, existing) ==
    IF mods = <<>> THEN <<>>
    ELSE (IF keepsBundle(Head(mods), existing) THEN <<abstractOnly(Head(mods))>> ELSE <<>>)
         \o flatMapBundles(Tail(mods), existing)

fromAbstractsOnly(raw, mods) == flatMapBundles(mods, existingTitles(raw, mods))

MovedTitle1 ==
    <<"P","h","y","s","i","c","s","-","I","n","f","o","r","m","e","d"," ","D","i","f","f","u",
      "s","i","o","n"," ","M","o","d","e","l","s"," ","f","o","r"," ","D","a","t","a"," ","A",
      "u","g","m","e","n","t","a","t","i","o","n"," ","i","n"," ","M","e","t","a","l"," ","A",
      "d","d","i","t","i","v","e"," ","M","a","n","u","f","a","c","t","u","r","i","n","g">>

MovedTitle2 ==
    <<"I","n","f","-","S","u","p"," ","N","e","u","r","a","l"," ","N","e","t","w","o","r","k",
      "s"," ","f","o","r"," ","S","o","l","v","i","n","g"," ","H","i","g","h","-","D","i","m",
      "e","n","s","i","o","n","a","l"," ","P","D","E"," ","P","r","o","b","l","e","m","s">>

MovedTitle3 ==
    <<"A"," ","G","e","n","e","r","a","l","i","z","e","d"," ","E","n","e","r","g","y","-","B",
      "a","s","e","d"," ","A","d","a","p","t","i","v","e"," ","G","r","a","d","i","e","n","t",
      " ","M","e","t","h","o","d"," ","f","o","r"," ","O","p","t","i","m","i","z","a","t","i",
      "o","n">>

MovedTitle4 ==
    <<"F","a","s","t"," ","a","n","d"," ","P","o","s","i","t","i","v","e"," ","f","P","I","N",
      "N","s"," ","f","o","r"," ","T","i","m","e","-","F","r","a","c","t","i","o","n","a","l",
      " ","C","o","n","v","e","c","t","i","o","n","-","D","i","f","f","u","s","i","o","n"," ",
      "E","q","u","a","t","i","o","n","s"," ","v","i","a"," ","M","F","L","1"," ","S","c","h",
      "e","m","e","s">>

YingliLi ==
    <<"Y","i","n","g","l","i"," ","L","i">>

ContributedTalksTitle ==
    <<"C","o","n","t","r","i","b","u","t","e","d"," ","T","a","l","k","s">>

ContributedNeedle ==
    <<"c","o","n","t","r","i","b","u","t","e","d"," ","t","a","l","k","s">>

CancelledMarker ==
    <<"C","A","N","C","E","L","L","E","D">>

IdPrefixCT ==
    <<"C","T">>

RoomScen406 ==
    <<"S","C","E","N"," ","4","0","6">>

RoomScen405 ==
    <<"S","C","E","N"," ","4","0","5">>

RoomScen205 ==
    <<"S","C","E","N"," ","2","0","5">>

movedTitles == {trim(MovedTitle1), trim(MovedTitle2), trim(MovedTitle3), trim(MovedTitle4)}

movedSpeakers == {trim(YingliLi)}

\* a title of blanks counts as a title
hasTitleUntrimmed(r) == Truthy(r.Title)

\* rows kept by (r.Title && r.Title.trim().length > 0)
hasTitle(r) == Truthy(r.Title) /\ Len(trim(r.Title)) > 0

titledRows(rows) == SelectSeq(rows, hasTitle)

\* [r['First Name'], r['Last Name']].filter(Boolean).join(' ').trim()
joinedName(r) ==
    trim(IF Truthy(r.FirstName) /\ Truthy(r.LastName)
           THEN r.FirstName \o <<" ">> \o r.LastName
         ELSE IF Truthy(r.FirstName) THEN r.FirstName
         ELSE IF Truthy(r.LastName) THEN r.LastName
         ELSE <<>>)

\* only the title list is consulted
notMovedTitleOnly(r) == trim(Or(r.Title, <<>>)) \notin movedTitles

\* the filteredRows predicate
notMoved(r) ==
    /\ trim(Or(r.Title, <<>>)) \notin movedTitles
    /\ joinedName(r) \notin movedSpeakers

filteredRows(rows) == SelectSeq(titledRows(rows), notMoved)

contributedTalk(r) ==
    [title    |-> trim(r.Title),
     speakers |-> <<[name |-> joinedName(r), affiliation |-> trim(Or(r.Affiliation, <<>>))]>>,
     start    |-> Null,
     end      |-> Null]

\* Array.prototype.slice(from, to) with 0-based bounds
slice(s, from, to) ==
    SubSeq(s, from + 1, IF to < Len(s) THEN to ELSE Len(s))

\* filteredRows.map(...).slice(0, 16)
contributedTalks(rows) ==
    slice([k \in 1..Len(filteredRows(rows)) |-> contributedTalk(filteredRows(rows)[k])], 0, 16)

slotTimes ==
    << << <<Stamp(11, 10, 10), Stamp(11, 10, 30)>>, <<Stamp(11, 10, 30), Stamp(11, 10, 50)>>,
          <<Stamp(11, 10, 50), Stamp(11, 11, 10)>>, <<Stamp(11, 11, 10), Stamp(11, 11, 30)>> >>,
       << <<Stamp(11, 15, 30), Stamp(11, 15, 50)>>, <<Stamp(11, 15, 50), Stamp(11, 16, 10)>>,
          <<Stamp(11, 16, 10), Stamp(11, 16, 30)>>, <<Stamp(11, 16, 30), Stamp(11, 16, 50)>> >>,
       << <<Stamp(11, 17, 0), Stamp(11, 17, 20)>>, <<Stamp(11, 17, 20), Stamp(11, 17, 40)>>,
          <<Stamp(11, 17, 40), Stamp(11, 18, 0)>>, <<Stamp(11, 18, 0), Stamp(11, 18, 20)>> >>,
       << <<Stamp(12, 10, 10), Stamp(12, 10, 30)>>, <<Stamp(12, 10, 30), Stamp(12, 10, 50)>>,
          <<Stamp(12, 10, 50), Stamp(12, 11, 10)>>, <<Stamp(12, 11, 10), Stamp(12, 11, 30)>> >> >>

\* talks.slice(from, to).map((t, j) => ({...t, start, end})).filter((t) => t.title)
slotted(ts, from, to, slots) ==
    LET part == slice(ts, from, to)
        timed == [j \in 1..Len(part) |->
                    [part[j] EXCEPT !.start = slots[j][1], !.end = slots[j][2]]]
    IN  SelectSeq(timed, LAMBDA t : Truthy(t.title))

contributedGroup(n, room, start, end, ts) ==
    [id        |-> IdPrefixCT \o NumberText(n),
     title     |-> ContributedTalksTitle \o <<" ">> \o NumberText(n),
     organizers |-> <<>>,
     day       |-> DatePrefix \o Pad2(11),
     room      |-> room,
     timezone  |-> AmericaChicago,
     sessions  |-> <<[id    |-> IdPrefixCT \o NumberText(n) \o SessionInfix \o NumberText(1),
                      start |-> start,
                      end   |-> end,
                      chair |-> Null,
                      room  |-> room,
                      talks |-> ts]>>]

ct1(rows) ==
    contributedGroup(1, RoomScen406, Stamp(11, 10, 10), Stamp(11, 11, 30),
                     slotted(contributedTalks(rows), 0, 4, slotTimes[1]))

ct2(rows) ==
    contributedGroup(2, RoomScen405, Stamp(11, 17, 0), Stamp(11, 18, 20),
                     slotted(contributedTalks(rows), 4, 8, slotTimes[3]))

ct3(rows) ==
    contributedGroup(3, RoomScen205, Stamp(11, 17, 0), Stamp(11, 18, 20),
                     slotted(contributedTalks(rows), 8, 12, slotTimes[3]))

\* the groups are built whatever the structured titles are
contributedAlways(raw, mods, rows) ==
    IF Len(titledRows(rows)) > 0 THEN <<ct1(rows), ct2(rows), ct3(rows)>> ELSE <<>>

\* the value of `contributed`; null is the empty sequence (it is only spread)
contributed(raw, mods, rows) ==
    IF /\ Len(titledRows(rows)) > 0
       /\ slugify(ContributedTalksTitle) \notin existingTitles(raw, mods)
    THEN <<ct1(rows), ct2(rows), ct3(rows)>>
    ELSE <<>>

\* the contributed groups come first
combinedContributedFirst(raw, mods, rows) ==
    contributed(raw, mods, rows) \o fromSessions(raw, mods) \o fromAbstractsOnly(raw, mods)

combined(raw, mods, rows) ==
    fromSessions(raw, mods) \o fromAbstractsOnly(raw, mods) \o contributed(raw, mods, rows)

\* (ms.title || '').trim().toLowerCase().includes('contributed talks')
isContrib(ms) ==
    includes(toLowerCase(trim(Or(ms.title, <<>>))), ContributedNeedle)

\* every session keeps the id it was loaded with
renumberedKeepId(ms, code) == [ms EXCEPT !.id = code]

\* { ...ms, id: code, sessions: sessions.map((s, si) => ({...s, id: `${code}-S${si + 1}`})) }
renumbered(ms, code) ==
    [ms EXCEPT !.id = code,
               !.sessions = [si \in 1..Len(ms.sessions) |->
                               [ms.sessions[si] EXCEPT
                                  !.id = code \o SessionInfix \o NumberText(si)]]]

\* combined.map(...) with the running msCounter
RECURSIVE assignCodes(_, _)
assignCodes(list, msCounter) ==
    IF list = <<>> THEN <<>>
    ELSE IF isContrib(Head(list))
         THEN <<renumbered(Head(list), Head(list).id)>> \o assignCodes(Tail(list), msCounter)
         ELSE <<renumbered(Head(list), IdPrefixMS \o NumberText(msCounter))>>
              \o assignCodes(Tail(list), msCounter + 1)

ProgramData(raw, mods, rows) == assignCodes(combined(raw, mods, rows), 1)

-----------------------------------------------------------------------------
(* Talk lookup: the two TalkPage components *)

\* a lookup result: the matched entry, or nothing for null
NotFound == <<>>

\* rows of the `all` index pushed for one abstract bundle (ms-aware copy)
bundleEntries(data) ==
    [k \in 1..Len(data.talks) |->
        [msTitle   |-> bundleTitle(data),
         title     |-> data.talks[k].title,
         speakers  |-> data.talks[k].speakers,
         abstract  |-> Or(data.talks[k].abstract, <<>>),
         slug      |-> slugifyTalk(data.talks[k].title),
         cancelled |-> data.talks[k].cancelled]]

RECURSIVE allBundleEntries(_)
allBundleEntries(mods) ==
    IF mods = <<>> THEN <<>>
    ELSE bundleEntries(Head(mods)) \o allBundleEntries(Tail(mods))

\* the row of the `all` index pushed for one contributed row
rowEntry(r) ==
    [msTitle   |-> ContributedTalksTitle,
     title     |-> trim(Or(r.Title, <<>>)),
     speakers  |-> IF Truthy(joinedName(r))
                   THEN <<[name |-> joinedName(r),
                           affiliation |-> trim(Or(r.Affiliation, <<>>))]>>
                   ELSE <<>>,
     abstract  |-> trim(Or(r.Abstract, <<>>)),
     slug      |-> slugifyTalk(trim(Or(r.Title, <<>>))),
     cancelled |-> includes(trim(Or(r.PresentationType, <<>>)), CancelledMarker)]

\* the `all` index: bundles in enumeration order, then the titled rows
allTalks(mods, rows) ==
    allBundleEntries(mods)
    \o [k \in 1..Len(titledRows(rows)) |-> rowEntry(titledRows(rows)[k])]

candidates(mods, rows, slug) ==
    SelectSeq(allTalks(mods, rows), LAMBDA t : t.slug = slug)

\* talkData of the ms-aware TalkPage
findTalk(mods, rows, slug, msParam) ==
    LET c == candidates(mods, rows, slug)
        exact == SelectSeq(c, LAMBDA t : slugifyTalk(Or(t.msTitle, <<>>)) = msParam)
    IN  IF Len(c) = 0 THEN NotFound
        ELSE IF ~Truthy(msParam) THEN <<c[1]>>
        ELSE IF Len(exact) > 0 THEN <<exact[1]>>
        ELSE <<c[1]>>

\* rows of the `all` index of src/TalkPage.jsx: bundles only, no cancelled flag
bundleEntriesSrc(data) ==
    [k \in 1..Len(data.talks) |->
        [msTitle  |-> bundleTitle(data),
         title    |-> data.talks[k].title,
         speakers |-> data.talks[k].speakers,
         abstract |-> Or(data.talks[k].abstract, <<>>),
         slug     |-> slugifyTalk(data.talks[k].title)]]

RECURSIVE allTalksSrc(_)
allTalksSrc(mods) ==
    IF mods = <<>> THEN <<>>
    ELSE bundleEntriesSrc(Head(mods)) \o allTalksSrc(Tail(mods))

\* talkData of src/TalkPage.jsx: all.find((t) => t.slug === slug) || null
findTalkSrc(mods, slug) ==
    LET c == SelectSeq(allTalksSrc(mods), LAMBDA t : t.slug = slug)
    IN  IF Len(c) = 0 THEN NotFound ELSE <<c[1]>>

\* new URLSearchParams(location.search).get('ms') || null
msParamOf(ms) == Or(ms, Null)

-----------------------------------------------------------------------------
(* Calendar exporter: ProgramPage.jsx createICS, createICSForSession *)

\* the value of one decimal digit unit
DigitValue(c) == CHOOSE k \in 0..9 : DigitChars[k + 1] = c

IsDigits(s) == \A k \in 1..Len(s) : \E d \in 1..10 : DigitChars[d] = s[k]

RECURSIVE ParseDigits(_)
ParseDigits(s) ==
    IF s = <<>> THEN 0
    ELSE 10 * ParseDigits(SubSeq(s, 1, Len(s) - 1)) + DigitValue(s[Len(s)])

\* days between 1970-01-01 and the proleptic Gregorian date y-m-d
DaysFromCivil(y, m, d) ==
    LET yy == IF m <= 2 THEN y - 1 ELSE y
        era == yy \div 400
        yoe == yy - era * 400
        doy == ((153 * (IF m > 2 THEN m - 3 ELSE m + 9) + 2) \div 5) + d - 1
        doe == yoe * 365 + (yoe \div 4) - (yoe \div 100) + doy
    IN  era * 146097 + doe - 719468

\* the Gregorian date of the day z days after 1970-01-01
CivilFromDays(z) ==
    LET zz == z + 719468
        era == zz \div 146097
        doe == zz - era * 146097
        yoe == (doe - (doe \div 1460) + (doe \div 36524) - (doe \div 146096)) \div 365
        doy == doe - (365 * yoe + (yoe \div 4) - (yoe \div 100))
        mp == (5 * doy + 2) \div 153
        d == doy - ((153 * mp + 2) \div 5) + 1
        m == IF mp < 10 THEN mp + 3 ELSE mp - 9
    IN  [year |-> yoe + era * 400 + (IF m <= 2 THEN 1 ELSE 0), month |-> m, date |-> d]

\* an Invalid Date: its time value is NaN
NaN == -1

NaNText == <<"N","a","N">>

\* the offset part of a date-time string, in seconds east of UTC:
\* 'Z', '.sssZ', '+hh:mm' or '-hh:mm'
ZoneSeconds(z) ==
    IF z = <<"Z">> THEN 0
    ELSE IF Len(z) = 5 /\ z[1] = "." /\ IsDigits(SubSeq(z, 2, 4)) /\ z[5] = "Z" THEN 0
    ELSE IF Len(z) = 6 /\ z[1] \in {"+", "-"} /\ IsDigits(SubSeq(z, 2, 3)) /\ z[4] = ":"
            /\ IsDigits(SubSeq(z, 5, 6))
         THEN (IF z[1] = "-" THEN -1 ELSE 1)
              * (ParseDigits(SubSeq(z, 2, 3)) * 3600 + ParseDigits(SubSeq(z, 5, 6)) * 60)
    ELSE NaN

IsDateText(s) ==
    /\ Len(s) >= 10
    /\ IsDigits(SubSeq(s, 1, 4)) /\ s[5] = "-" /\ IsDigits(SubSeq(s, 6, 7))
    /\ s[8] = "-" /\ IsDigits(SubSeq(s, 9, 10))

IsDateTimeText(s) ==
    /\ IsDateText(s)
    /\ Len(s) >= 20
    /\ s[11] = "T" /\ IsDigits(SubSeq(s, 12, 13)) /\ s[14] = ":"
    /\ IsDigits(SubSeq(s, 15, 16)) /\ s[17] = ":" /\ IsDigits(SubSeq(s, 18, 19))
    /\ ZoneSeconds(SubSeq(s, 20, Len(s))) # NaN

\* new Date(iso).getTime() in seconds: null is the epoch, undefined and text
\* that is not an ISO date or date-time with an offset are Invalid Date
DateOf(iso) ==
    IF iso = Null THEN 0
    ELSE IF iso = Undefined THEN NaN
    ELSE IF IsDateTimeText(iso)
         THEN DaysFromCivil(ParseDigits(SubSeq(iso, 1, 4)), ParseDigits(SubSeq(iso, 6, 7)),
                            ParseDigits(SubSeq(iso, 9, 10))) * 86400
              + ParseDigits(SubSeq(iso, 12, 13)) * 3600
              + ParseDigits(SubSeq(iso, 15, 16)) * 60
              + ParseDigits(SubSeq(iso, 18, 19))
              - ZoneSeconds(SubSeq(iso, 20, Len(iso)))
    ELSE IF IsDateText(iso) /\ Len(iso) = 10
         THEN DaysFromCivil(ParseDigits(SubSeq(iso, 1, 4)), ParseDigits(SubSeq(iso, 6, 7)),
                            ParseDigits(SubSeq(iso, 9, 10))) * 86400
    ELSE NaN

\* the getUTC* fields of a valid Date
UTCFields(time) ==
    LET civil == CivilFromDays(time \div 86400)
        rest == time % 86400
    IN  [year |-> civil.year, month |-> civil.month - 1, date |-> civil.date,
         hours |-> rest \div 3600, minutes |-> (rest % 3600) \div 60, seconds |-> rest % 60]

\* (n) => String(n).padStart(2, "0")
pad(n) == IF n = NaN THEN NaNText ELSE Pad2(n)

\* toICSDate(iso): the UTC fields of new Date(iso), without separators
toICSDate(iso) ==
    LET d == DateOf(iso)
        f == UTCFields(d)
    IN  IF d = NaN
        THEN NaNText \o pad(NaN) \o pad(NaN) \o <<"T">> \o pad(NaN) \o pad(NaN) \o pad(NaN)
             \o <<"Z">>
        ELSE NumberText(f.year) \o pad(f.month + 1) \o pad(f.date) \o <<"T">>
             \o pad(f.hours) \o pad(f.minutes) \o pad(f.seconds) \o <<"Z">>

\* Date.prototype.toISOString of a valid Date with whole seconds
toISOString(time) ==
    LET f == UTCFields(time)
    IN  NumberText(f.year) \o <<"-">> \o Pad2(f.month + 1) \o <<"-">> \o Pad2(f.date)
        \o <<"T">> \o Pad2(f.hours) \o <<":">> \o Pad2(f.minutes) \o <<":">>
        \o Pad2(f.seconds) \o <<".","0","0","0","Z">>

\* one code unit of replaceAll(",", "\\,").replaceAll("\n", "\\n")
escapeICSUnit(c) ==
    IF c = "," THEN <<"\\", ",">>
    ELSE IF c = "\n" THEN <<"\\", "n">>
    ELSE <<c>>

RECURSIVE replaceAllUnits(_)
replaceAllUnits(s) ==
    IF Len(s) = 0 THEN <<>>
    ELSE IF Len(s) = 1 THEN escapeICSUnit(s[1])
    ELSE replaceAllUnits(SubSeq(s, 1, Len(s) \div 2))
         \o replaceAllUnits(SubSeq(s, (Len(s) \div 2) + 1, Len(s)))

escapeICS(text) == replaceAllUnits(String(text))

\* Array.prototype.join: the parts, with sep between neighbours
RECURSIVE join(_, _)
join(parts, sep) ==
    IF Len(parts) = 0 THEN <<>>
    ELSE IF Len(parts) = 1 THEN parts[1]
    ELSE join(SubSeq(parts, 1, Len(parts) \div 2), sep) \o sep
         \o join(SubSeq(parts, (Len(parts) \div 2) + 1, Len(parts)), sep)

\* [a, b, ...].flat() of a list of lists
RECURSIVE flat(_)
flat(lists) ==
    IF Len(lists) = 0 THEN <<>>
    ELSE IF Len(lists) = 1 THEN lists[1]
    ELSE flat(SubSeq(lists, 1, Len(lists) \div 2))
         \o flat(SubSeq(lists, (Len(lists) \div 2) + 1, Len(lists)))

CRLF == <<"\r", "\n">>

BeginCalendar == <<"B","E","G","I","N",":","V","C","A","L","E","N","D","A","R">>

VersionLine == <<"V","E","R","S","I","O","N",":","2",".","0">>

ProdIdLine == <<"P","R","O","D","I","D",":","-","/","/","C","o","n","f","e","r","e","n","c","e"," ","P","r","o","g","r","a","m","/","/","E","N">>

EndCalendar == <<"E","N","D",":","V","C","A","L","E","N","D","A","R">>

BeginEvent == <<"B","E","G","I","N",":","V","E","V","E","N","T">>

EndEvent == <<"E","N","D",":","V","E","V","E","N","T">>

UidKey == <<"U","I","D",":">>

SummaryKey == <<"S","U","M","M","A","R","Y",":">>

DtStartKey == <<"D","T","S","T","A","R","T",":">>

DtEndKey == <<"D","T","E","N","D",":">>

LocationKey == <<"L","O","C","A","T","I","O","N",":">>

ChairKey == <<"D","E","S","C","R","I","P","T","I","O","N",":","C","h","a","i","r",":"," ">>

SessionWord == <<" ","U+2014"," ","S","e","s","s","i","o","n"," ">>

Dash == <<" ","U+2014"," ">>

TBA == <<"T","B","A">>

AtProgram == <<"@","p","r","o","g","r","a","m">>

TalkInfix == <<"-","T">>

CommaSpace == <<","," ">>

\* the three lines both exporters start from
calendarHead == <<BeginCalendar, VersionLine, ProdIdLine>>

\* t.speakers?.map((p) => p.name).join(", ") || ""
spk(t) == join([k \in 1..Len(t.speakers) |-> t.speakers[k].name], CommaSpace)

\* `${escapeICS(t.title)}${spk ? ` - ${escapeICS(spk)}` : ""}`
talkSummary(t) ==
    escapeICS(t.title) \o (IF Truthy(spk(t)) THEN Dash \o escapeICS(spk(t)) ELSE <<>>)

\* `${ms.title} - Session ${si + 1}`, si counted from 0
sessionSummary(ms, si) == String(ms.title) \o SessionWord \o NumberText(si + 1)

\* the lines createICS pushes for talk ti (from 0) of the session whose uid is given
talkEventNoEnd(ms, uid, t, ti) ==
    << BeginEvent,
       UidKey \o uid \o TalkInfix \o NumberText(ti),
       SummaryKey \o talkSummary(t),
       DtStartKey \o toICSDate(t.start),
       DtEndKey \o toICSDate(t.end),
       LocationKey \o escapeICS(Or(ms.room, TBA)) >>

talkEvent(ms, uid, t, ti) ==
    << BeginEvent,
       UidKey \o uid \o TalkInfix \o NumberText(ti),
       SummaryKey \o talkSummary(t),
       DtStartKey \o toICSDate(t.start),
       DtEndKey \o toICSDate(t.end),
       LocationKey \o escapeICS(Or(ms.room, TBA)),
       EndEvent >>

\* the lines createICS pushes for session si (from 0) and its talks
sessionEvents(ms, s, si) ==
    LET uid == String(ms.id) \o SessionInfix \o NumberText(si) \o AtProgram
    IN  << BeginEvent,
           UidKey \o uid,
           SummaryKey \o sessionSummary(ms, si),
           DtStartKey \o toICSDate(s.start),
           DtEndKey \o toICSDate(s.end),
           LocationKey \o escapeICS(Or(ms.room, TBA)),
           ChairKey \o escapeICS(Or(s.chair, TBA)),
           EndEvent >>
        \o flat([k \in 1..Len(s.talks) |-> talkEvent(ms, uid, s.talks[k], k - 1)])

createICS(ms) ==
    join(calendarHead
         \o flat([k \in 1..Len(ms.sessions) |-> sessionEvents(ms, ms.sessions[k], k - 1)])
         \o <<EndCalendar>>, CRLF)

\* the time values of the truthy entries of a list of timestamps
timesOf(stamps) ==
    LET given == SelectSeq(stamps, Truthy)
    IN  [k \in 1..Len(given) |-> DateOf(given[k])]

\* Math.min(...dates) and Math.max(...dates) of a non-empty list
MathMin(times) ==
    CHOOSE x \in {times[k] : k \in 1..Len(times)} : \A k \in 1..Len(times) : x <= times[k]

MathMax(times) ==
    CHOOSE x \in {times[k] : k \in 1..Len(times)} : \A k \in 1..Len(times) : x >= times[k]

\* inferSessionBounds(session): earliest of the session's and its talks' starts,
\* latest of their ends, each as toISOString text, or null when there is none
inferSessionBounds(session) ==
    LET starts == timesOf(<<session.start>>
                          \o [k \in 1..Len(session.talks) |-> session.talks[k].start])
        ends == timesOf(<<session.end>>
                        \o [k \in 1..Len(session.talks) |-> session.talks[k].end])
    IN  [start |-> IF Len(starts) > 0 THEN toISOString(MathMin(starts)) ELSE Null,
         end |-> IF Len(ends) > 0 THEN toISOString(MathMax(ends)) ELSE Null]

\* the lines createICSForSession pushes for talk ti (from 0)
sessionTalkEvent(ms, sid, t, ti) ==
    << BeginEvent,
       UidKey \o sid \o TalkInfix \o NumberText(ti),
       SummaryKey \o talkSummary(t) >>
    \o (IF Truthy(t.start) THEN <<DtStartKey \o toICSDate(t.start)>> ELSE <<>>)
    \o (IF Truthy(t.end) THEN <<DtEndKey \o toICSDate(t.end)>> ELSE <<>>)
    \o (IF Truthy(ms.room) THEN <<LocationKey \o escapeICS(ms.room)>> ELSE <<>>)
    \o <<EndEvent>>

createICSForSession(ms, session, sessionIndex) ==
    LET bounds == inferSessionBounds(session)
        sid == Or(session.id,
                  String(ms.id) \o SessionInfix \o NumberText(sessionIndex + 1))
    IN  join(calendarHead
             \o << BeginEvent,
                   UidKey \o sid \o AtProgram,
                   SummaryKey \o sessionSummary(ms, sessionIndex) >>
             \o (IF Truthy(bounds.start) THEN <<DtStartKey \o toICSDate(bounds.start)>>
                 ELSE <<>>)
             \o (IF Truthy(bounds.end) THEN <<DtEndKey \o toICSDate(bounds.end)>> ELSE <<>>)
             \o (IF Truthy(ms.room) THEN <<LocationKey \o escapeICS(ms.room)>> ELSE <<>>)
             \o (IF Truthy(session.chair) THEN <<ChairKey \o escapeICS(session.chair)>>
                 ELSE <<>>)
             \o <<EndEvent>>
             \o flat([k \in 1..Len(session.talks) |->
                        sessionTalkEvent(ms, sid, session.talks[k], k - 1)])
             \o <<EndCalendar>>, CRLF)

-----------------------------------------------------------------------------
(* Search and day filter: ProgramPage.jsx caseInsensitiveMatch, filtered *)

\* the value 'all' of the day selector
AllDays == <<"a","l","l">>

\* if (!query || !text) return false;
\* return text.toLowerCase().includes(query.toLowerCase())
caseInsensitiveMatch(q, text) ==
    IF ~Truthy(q) \/ ~Truthy(text) THEN FALSE
    ELSE includes(toLowerCase(text), toLowerCase(q))

\* parts.join(" "): null and undefined elements are written as nothing
joinBlank(parts) ==
    join([k \in 1..Len(parts) |->
            IF parts[k] \in {Null, Undefined} THEN <<>> ELSE parts[k]], <<" ">>)

\* [t.title, ...(t.speakers || []).map((p) => p.name)].join(" ")
talkHay(t) == joinBlank(<<t.title>> \o [k \in 1..Len(t.speakers) |-> t.speakers[k].name])

\* [ms.title, ms.organizers.map((o) => o.name).join(" ")].join(" ")
msHay(ms) ==
    joinBlank(<<ms.title,
                joinBlank([k \in 1..Len(ms.organizers) |-> ms.organizers[k].name])>>)

\* the callback of s.talks.filter
keepsTalk(t, q) == IF ~Truthy(q) THEN TRUE ELSE caseInsensitiveMatch(q, talkHay(t))

\* every entry is kept, whatever the query
keepsMsAlways(ms, q) == TRUE

\* the callback of the last filter, on an entry whose talks are filtered
keepsMs(ms, q) ==
    IF Truthy(q)
    THEN \/ caseInsensitiveMatch(q, msHay(ms))
         \/ \E k \in 1..Len(ms.sessions) : Len(ms.sessions[k].talks) > 0
    ELSE TRUE

\* the useMemo callback of `filtered` for the given data, query and day
filteredFor(data, typed, d) ==
    LET q == trim(typed)
        ofDay == SelectSeq(data, LAMBDA ms : IF d = AllDays THEN TRUE ELSE ms.day = d)
        narrowed == [i \in 1..Len(ofDay) |->
                       [ofDay[i] EXCEPT !.sessions =
                          [k \in 1..Len(ofDay[i].sessions) |->
                             [ofDay[i].sessions[k] EXCEPT !.talks =
                                SelectSeq(ofDay[i].sessions[k].talks,
                                          LAMBDA t : keepsTalk(t, q))]]]]
    IN  SelectSeq(narrowed, LAMBDA ms : keepsMs(ms, q))

\* filtered: recomputed whenever query or day changes
filtered == filteredFor(programData, query, day)

\* allDays, as the set of the selector's options
allDays == {AllDays} \cup {programData[m].day : m \in 1..Len(programData)}

-----------------------------------------------------------------------------
(* Bundled input data: the shapes the loaders read, drawn from small pools *)

\* total number of structured records, bundles and rows bundled together
MaxItems == 3

\* longest string handed to slugify in SlugSpec
MaxLen == 3

Ann == [name |-> <<"A","n","n"," ","N","g">>, affiliation |-> <<"U","A">>]

Bob == [name |-> <<"B","o","b">>, affiliation |-> <<>>]

GraphTheory == <<"G","r","a","p","h"," ","T","h","e","o","r","y">>

GraphTheoryShout == <<"G","R","A","P","H"," ","T","H","E","O","R","Y","!">>

SetTheory == <<"S","e","t","s">>

ExtraContributedTalks == <<"E","x","t","r","a"," ","C","o","n","t","r","i","b","u","t","e","d"," ","T","a","l","k","s">>

ExtraContributedTalksLower == <<"e","x","t","r","a"," ","c","o","n","t","r","i","b","u","t","e","d"," ","t","a","l","k","s">>

Tbd == <<"T","B","D">>

TbdQuery == <<"T","b","d","?">>

Flows == <<"F","l","o","w","s">>

Foo == <<"F","o","o">>

StructuredTalk(title, start, end, speakers) ==
    [title |-> title, start |-> start, end |-> end, speakers |-> speakers]

StructuredRecord(id, mt, t, organizers, sessions, talks) ==
    [id |-> id, minisymposium_title |-> mt, title |-> t, organizers |-> organizers,
     room |-> Undefined, timezone |-> Undefined, sessions |-> sessions,
     start |-> Undefined, end |-> Undefined, chair |-> Undefined, talks |-> talks]

StructuredPool ==
    { \* the scenario: 'Graph Theory', no organizers, one session of two talks
      StructuredRecord(Undefined, GraphTheory, Undefined, <<>>,
        <<[id |-> Undefined, start |-> Stamp(11, 10, 10), end |-> Stamp(11, 11, 30),
           chair |-> Undefined,
           talks |-> <<StructuredTalk(Tbd, Stamp(11, 10, 10), Stamp(11, 10, 30), <<Ann>>),
                       StructuredTalk(Flows, Stamp(11, 10, 30), Stamp(11, 10, 50), <<Bob>>)>>]>>,
        <<>>),
      \* legacy shape, own organizers, a title that contains 'contributed talks'
      StructuredRecord(Undefined, Undefined, ExtraContributedTalks, <<Bob>>, <<>>,
        <<StructuredTalk(Tbd, Undefined, Undefined, <<>>)>>),
      \* the title 'Contributed Talks' itself, with an explicit id
      StructuredRecord(<<"C","T","1">>, ContributedTalksTitle, Undefined, <<>>, <<>>, <<>>),
      \* explicit ids on the record and on its sessions, no title, two sessions
      StructuredRecord(<<"X","9">>, Undefined, Undefined, <<Ann>>,
        <<[id |-> <<"o","w","n">>, start |-> Undefined, end |-> Undefined, chair |-> <<"A","n","n"," ","N","g">>,
           talks |-> <<StructuredTalk(Undefined, Undefined, Undefined, <<>>)>>],
          [id |-> Undefined, start |-> Stamp(12, 10, 10), end |-> Undefined,
           chair |-> Undefined, talks |-> <<>>]>>,
        <<>>) }

BundleTalk(title, speakers, abstract, cancelled) ==
    [title |-> title, speakers |-> speakers, abstract |-> abstract, cancelled |-> cancelled]

Bundle(mt, t, organizers, talks) ==
    [minisymposium_title |-> mt, title |-> t, organizers |-> organizers, talks |-> talks]

BundlePool ==
    { \* the scenario: 'Graph Theory' with organizers
      Bundle(GraphTheory, Undefined, <<Ann>>,
        <<BundleTalk(Tbd, <<Ann>>, <<"O","n"," ","x",".">>, FALSE), BundleTalk(Flows, <<Bob>>, Undefined, FALSE)>>),
      \* another spelling of the same slug, other organizers
      Bundle(Undefined, GraphTheoryShout, <<Bob>>, <<BundleTalk(TbdQuery, <<Bob>>, <<>>, TRUE)>>),
      \* a bundle of its own, with a talk whose slug is 'tbd' too
      Bundle(SetTheory, Undefined, <<>>,
        <<BundleTalk(Tbd, <<>>, <<>>, FALSE), BundleTalk(Undefined, <<>>, <<>>, FALSE)>>),
      \* a title that contains 'contributed talks', a structured record's slug
      Bundle(ExtraContributedTalksLower, Undefined, <<Ann>>, <<BundleTalk(Foo, <<Bob>>, <<>>, FALSE)>>),
      \* no title at all
      Bundle(Undefined, Undefined, <<Ann>>, <<BundleTalk(Flows, <<Ann>>, <<>>, FALSE)>>) }

Row(title, first, last, affiliation, abstract, type) ==
    [Title |-> title, FirstName |-> first, LastName |-> last,
     Affiliation |-> affiliation, Abstract |-> abstract, PresentationType |-> type]

RowPool ==
    { \* the scenario: a title and no name
      Row(Foo, <<>>, <<>>, <<>>, <<>>, <<>>),
      \* a promoted title, padded with blanks
      Row(<<" ">> \o MovedTitle1 \o <<" ">>, <<"A","n","n">>, <<"L","e","e">>, <<"U","A">>, <<"O","n"," ","x",".">>, <<"T","a","l","k">>),
      \* the promoted speaker, cancelled
      Row(Tbd, <<"Y","i","n","g","l","i">>, <<"L","i">>, <<>>, <<>>, <<"T","a","l","k"," ","-"," ","C","A","N","C","E","L","L","E","D">>),
      \* no title: blanks only
      Row(<<" ", " ">>, <<"A","n","n">>, Undefined, <<>>, <<>>, <<>>),
      \* an ordinary row whose slug is 'tbd'
      Row(TbdQuery, <<"B","o","b">>, Undefined, <<"U","A">>, <<>>, <<"T","a","l","k">>) }

\* data for the calendar exporter and the display day: commas and a line break
\* in free text, offsets other than -05:00, times near midnight, missing times
AnalysisOptimization == <<"A","n","a","l","y","s","i","s",","," ","O","p","t","i","m","i","z","a","t","i","o","n">>

RoomNorth == <<"S","C","E","N"," ","4","0","1",","," ","N","o","r","t","h">>

ChairLeeKim == <<"L","e","e",","," ","K","i","m">>

FlowsCuts == <<"F","l","o","w","s",","," ","c","u","t","s">>

SetsAndMaps == <<"S","e","t","s","\n","a","n","d"," ","m","a","p","s">>

AsiaTokyo == <<"A","s","i","a","/","T","o","k","y","o">>

LateEvening == <<"2","0","2","5","-","1","0","-","1","1","T","2","3",":","3","0",":","0","0","-","0","5",":","0","0">>

PastMidnight == <<"2","0","2","5","-","1","0","-","1","2","T","0","0",":","1","0",":","0","0","-","0","5",":","0","0">>

EarlyParis == <<"2","0","2","5","-","1","0","-","1","2","T","0","1",":","0","0",":","0","0","+","0","2",":","0","0">>

ZuluNight == <<"2","0","2","5","-","1","0","-","1","1","T","2","3",":","3","0",":","0","0","Z">>

ExportStructuredPool ==
    { \* commas in the title, the room and the chair; a declared timezone other
      \* than the default; a talk that starts before the declared start of its
      \* session and an untimed talk with a line break; a second session with a
      \* start only
      [StructuredRecord(Undefined, AnalysisOptimization, Undefined, <<Ann>>,
         <<[id |-> Undefined, start |-> Stamp(11, 10, 20), end |-> Stamp(11, 11, 50),
            chair |-> ChairLeeKim,
            talks |-> <<StructuredTalk(FlowsCuts, Stamp(11, 10, 10), Stamp(11, 10, 30),
                                       <<Ann, Bob>>),
                        StructuredTalk(SetsAndMaps, Undefined, Undefined, <<>>)>>],
           [id |-> Undefined, start |-> Stamp(12, 9, 0), end |-> Undefined,
            chair |-> Undefined, talks |-> <<>>]>>,
         <<>>)
       EXCEPT !.room = RoomNorth, !.timezone = AsiaTokyo],
      \* a session that starts late in the evening at -05:00, the next day in UTC
      StructuredRecord(Undefined, GraphTheory, Undefined, <<>>,
         <<[id |-> Undefined, start |-> LateEvening, end |-> Undefined, chair |-> Undefined,
            talks |-> <<StructuredTalk(Tbd, LateEvening, PastMidnight, <<Bob>>)>>]>>,
         <<>>),
      \* legacy shape with no talks, no times, no room
      StructuredRecord(Undefined, Undefined, SetTheory, <<>>, <<>>, <<>>),
      \* legacy shape with no times of its own and a talk written at +02:00, on
      \* the day after the placeholder session start, the same day in UTC
      StructuredRecord(Undefined, Undefined, Foo, <<>>, <<>>,
         <<StructuredTalk(Flows, EarlyParis, ZuluNight, <<Ann>>)>>) }

ExportBundlePool ==
    { \* abstract-only unless 'Graph Theory' is structured: talks carry no times
      Bundle(GraphTheory, Undefined, <<Ann>>, <<BundleTalk(Tbd, <<Ann>>, <<>>, FALSE)>>),
      Bundle(Flows, Undefined, <<>>, <<BundleTalk(FlowsCuts, <<Ann, Bob>>, <<>>, FALSE)>>) }

ExportRowPool ==
    { Row(Foo, <<>>, <<>>, <<>>, <<>>, <<>>),
      Row(FlowsCuts, <<"A","n","n">>, <<"L","e","e">>, <<"U","A">>, <<>>, <<>>) }

\* a contributed table longer than the groups can hold: rows 'Talk 1',
\* 'Talk 2', ... with one blank-titled, promoted or cancelled row put in at
\* any place
MaxRows == 17

TalkWord == <<"T","a","l","k"," ">>

NumberedRow(k) ==
    Row(TalkWord \o NumberText(k), <<"A","n","n">>, <<"L","e","e">>, <<"U","A">>, <<>>, <<>>)

OddRows ==
    { Row(<<" ">>, <<"A","n","n">>, <<"L","e","e">>, <<>>, <<>>, <<>>),
      Row(MovedTitle2, <<"B","o","b">>, <<>>, <<>>, <<>>, <<>>),
      Row(Flows, <<"B","o","b">>, <<>>, <<>>, <<>>,
          <<"T","a","l","k"," ","-"," ","C","A","N","C","E","L","L","E","D">>) }

\* the rows 'Talk 1' .. 'Talk n' with the rows of `odd` put in after row p
LongTable(n, p, odd) ==
    [k \in 1..p |-> NumberedRow(k)] \o odd \o [k \in 1..(n - p) |-> NumberedRow(p + k)]

\* records for the structured loader: the legacy shape with and without times
\* of its own, a sessions array next to a flat copy of the same talks, and
\* sessions that declare one of start and end only
LoaderPool ==
    { \* legacy shape: two flat talks, no times anywhere
      StructuredRecord(Undefined, GraphTheory, Undefined, <<>>, <<>>,
        <<StructuredTalk(Tbd, Undefined, Undefined, <<Ann>>),
          StructuredTalk(Flows, Undefined, Undefined, <<Bob>>)>>),
      \* legacy shape with a start, an end and a chair of its own
      [StructuredRecord(Undefined, Undefined, SetTheory, <<Ann>>, <<>>,
         <<StructuredTalk(Flows, Stamp(12, 10, 10), Stamp(12, 10, 30), <<Bob>>),
           StructuredTalk(Foo, Stamp(12, 10, 30), Stamp(12, 10, 50), <<>>)>>)
       EXCEPT !.start = Stamp(12, 10, 10), !.end = Stamp(12, 11, 30),
              !.chair = <<"A","n","n"," ","N","g">>],
      \* two sessions, and the same talks once more as a flat list
      StructuredRecord(Undefined, Flows, Undefined, <<>>,
        <<[id |-> Undefined, start |-> Stamp(11, 15, 30), end |-> Stamp(11, 16, 50),
           chair |-> Undefined,
           talks |-> <<StructuredTalk(Foo, Stamp(11, 15, 30), Stamp(11, 15, 50), <<Ann>>),
                       StructuredTalk(Tbd, Stamp(11, 15, 50), Stamp(11, 16, 10), <<Bob>>)>>],
          [id |-> Undefined, start |-> Stamp(12, 10, 10), end |-> Stamp(12, 11, 30),
           chair |-> Undefined,
           talks |-> <<StructuredTalk(Flows, Stamp(12, 10, 10), Stamp(12, 10, 30), <<Bob>>)>>]>>,
        <<StructuredTalk(Foo, Undefined, Undefined, <<Ann>>),
          StructuredTalk(Tbd, Undefined, Undefined, <<Bob>>),
          StructuredTalk(Flows, Undefined, Undefined, <<Bob>>)>>),
      \* one session with an end only, one with a start only
      StructuredRecord(Undefined, Foo, Undefined, <<>>,
        <<[id |-> Undefined, start |-> Undefined, end |-> Stamp(11, 8, 30),
           chair |-> Undefined, talks |-> <<>>],
          [id |-> Undefined, start |-> Stamp(11, 15, 30), end |-> Undefined,
           chair |-> Undefined,
           talks |-> <<StructuredTalk(Tbd, Undefined, Undefined, <<>>)>>]>>,
        <<>>) }

SeqsUpTo(pool, n) == UNION {[1..k -> pool] : k \in 0..n}

-----------------------------------------------------------------------------
(* The site as a state machine *)

OnProgram == [page |-> "program", slug |-> Null, ms |-> Null]

\* nothing downloaded yet
NoFile == [kind |-> "none", m |-> 0, s |-> 0, text |-> <<>>]

IdleCall == [phase |-> 0, x |-> <<>>, y |-> <<>>, z |-> <<>>, yTalk |-> <<>>, zTalk |-> <<>>]

\* page load: the data is bundled, programData is computed once, '/' is shown
Init ==
    /\ \E a \in 0..MaxItems : \E b \in 0..(MaxItems - a) : \E c \in 0..(MaxItems - a - b) :
          /\ rawSessions \in [1..a -> StructuredPool]
          /\ abstractModules \in [1..b -> BundlePool]
          /\ contributedRows \in [1..c -> RowPool]
    /\ programData = ProgramData(rawSessions, abstractModules, contributedRows)
    /\ route = OnProgram
    /\ talkData = NotFound
    /\ talkDataSrc = NotFound
    /\ slugCall = IdleCall
    /\ icsFile = NoFile
    /\ query = <<>>
    /\ day = AllDays

\* what the route '/talk/:slug?ms=...' renders
ShowTalk(slug, ms) ==
    /\ slug # <<>>
    /\ route' = [page |-> "talk", slug |-> slug, ms |-> msParamOf(ms)]
    /\ talkData' = findTalk(abstractModules, contributedRows, slug, msParamOf(ms))
    /\ talkDataSrc' = findTalkSrc(abstractModules, slug)
    /\ UNCHANGED <<rawSessions, abstractModules, contributedRows, programData, slugCall,
                   icsFile, query, day>>

\* the program page's link of talk t of session s of minisymposium m
ClickTalkLink ==
    /\ route.page = "program"
    /\ \E m \in 1..Len(programData) :
         \E s \in 1..Len(programData[m].sessions) :
           \E t \in 1..Len(programData[m].sessions[s].talks) :
             ShowTalk(slugify(programData[m].sessions[s].talks[t].title),
                      slugify(programData[m].title))

\* addresses typed by hand: a slug with no ms parameter, or with a foreign one
TypedSlugs == {slugify(Tbd), slugify(Foo), UndefinedText}

TypedMs == {Null, <<>>, slugify(SetTheory), slugify(ContributedTalksTitle), slugify(Foo)}

EnterTalkUrl ==
    /\ route.page = "program"
    /\ \E slug \in TypedSlugs : \E ms \in TypedMs : ShowTalk(slug, ms)

\* the 'Back to program' link
BackToProgram ==
    /\ route.page = "talk"
    /\ route' = OnProgram
    /\ talkData' = NotFound
    /\ talkDataSrc' = NotFound
    /\ UNCHANGED <<rawSessions, abstractModules, contributedRows, programData, slugCall,
                   icsFile, query, day>>

Next == ClickTalkLink \/ EnterTalkUrl \/ BackToProgram

Spec == Init /\ [][Next]_vars

\* the program page and the links it renders, no address typed by hand
ProgramNext == ClickTalkLink \/ BackToProgram

ProgramSpec == Init /\ [][ProgramNext]_vars

-----------------------------------------------------------------------------
(* slugify on its own: every short string over an alphabet that has a lower *)
(* and an upper case letter, a digit, a hyphen, blanks and symbols          *)

ScenarioTitle ==
    <<"A"," ","B","K","M","-","t","y","p","e"," ","c","r","i","t","e","r","i","o","n","!">>

ScenarioSlug ==
    <<"a","-","b","k","m","-","t","y","p","e","-","c","r","i","t","e","r","i","o","n">>

SlugAlphabet == {"a", "B", "1", "-", " ", "!", "U+212A"}

SlugInputs ==
    SeqsUpTo(SlugAlphabet, MaxLen) \cup {Null, Undefined, ScenarioTitle}

SlugInit ==
    /\ rawSessions = <<>>
    /\ abstractModules = <<>>
    /\ contributedRows = <<>>
    /\ programData = <<>>
    /\ route = OnProgram
    /\ talkData = NotFound
    /\ talkDataSrc = NotFound
    /\ \E x \in SlugInputs : slugCall = [IdleCall EXCEPT !.x = x]
    /\ icsFile = NoFile
    /\ query = <<>>
    /\ day = AllDays

\* both copies applied to the input
SlugifyOnce ==
    /\ slugCall.phase = 0
    /\ slugCall' = [slugCall EXCEPT !.phase = 1,
                                    !.y = slugify(slugCall.x),
                                    !.yTalk = slugifyTalk(slugCall.x)]
    /\ UNCHANGED <<rawSessions, abstractModules, contributedRows, programData,
                   route, talkData, talkDataSrc, icsFile, query, day>>

\* both copies applied to their own output
SlugifyAgain ==
    /\ slugCall.phase = 1
    /\ slugCall' = [slugCall EXCEPT !.phase = 2,
                                    !.z = slugify(slugCall.y),
                                    !.zTalk = slugifyTalk(slugCall.yTalk)]
    /\ UNCHANGED <<rawSessions, abstractModules, contributedRows, programData,
                   route, talkData, talkDataSrc, icsFile, query, day>>

SlugNext == SlugifyOnce \/ SlugifyAgain

SlugSpec == SlugInit /\ [][SlugNext]_vars

-----------------------------------------------------------------------------
(* The program page's two export buttons, over data with dates and free text *)

ExportInit ==
    /\ \E a \in 0..MaxItems : \E b \in 0..(MaxItems - a) : \E c \in 0..(MaxItems - a - b) :
          /\ rawSessions \in [1..a -> ExportStructuredPool]
          /\ abstractModules \in [1..b -> ExportBundlePool]
          /\ contributedRows \in [1..c -> ExportRowPool]
    /\ programData = ProgramData(rawSessions, abstractModules, contributedRows)
    /\ route = OnProgram
    /\ talkData = NotFound
    /\ talkDataSrc = NotFound
    /\ slugCall = IdleCall
    /\ icsFile = NoFile
    /\ query = <<>>
    /\ day = AllDays

\* 'Export .ics' of minisymposium m: downloadICS(`${ms.id}.ics`, createICS(ms))
ExportMinisymposium ==
    \E m \in 1..Len(programData) :
       /\ icsFile' = [kind |-> "minisymposium", m |-> m, s |-> 0,
                      text |-> createICS(programData[m])]
       /\ UNCHANGED <<rawSessions, abstractModules, contributedRows, programData,
                      route, talkData, talkDataSrc, slugCall, query, day>>

\* the session's own button: createICSForSession(ms, s, si), si counted from 0
ExportSession ==
    \E m \in 1..Len(programData) : \E s \in 1..Len(programData[m].sessions) :
       /\ icsFile' = [kind |-> "session", m |-> m, s |-> s,
                      text |-> createICSForSession(programData[m],
                                                   programData[m].sessions[s], s - 1)]
       /\ UNCHANGED <<rawSessions, abstractModules, contributedRows, programData,
                      route, talkData, talkDataSrc, slugCall, query, day>>

ExportNext == ExportMinisymposium \/ ExportSession

ExportSpec == ExportInit /\ [][ExportNext]_vars

-----------------------------------------------------------------------------
(* The program page over a long contributed table *)

CapacityInit ==
    /\ rawSessions = <<>>
    /\ abstractModules = <<>>
    /\ \E n \in 0..MaxRows : \E p \in 0..n :
          \E odd \in {<<>>} \cup {<<r>> : r \in OddRows} :
             contributedRows = LongTable(n, p, odd)
    /\ programData = ProgramData(rawSessions, abstractModules, contributedRows)
    /\ route = OnProgram
    /\ talkData = NotFound
    /\ talkDataSrc = NotFound
    /\ slugCall = IdleCall
    /\ icsFile = NoFile
    /\ query = <<>>
    /\ day = AllDays

CapacityNext == ClickTalkLink \/ BackToProgram

CapacitySpec == CapacityInit /\ [][CapacityNext]_vars

-----------------------------------------------------------------------------
(* The program page over structured records alone *)

LoaderInit ==
    /\ \E a \in 0..MaxItems : rawSessions \in [1..a -> LoaderPool]
    /\ abstractModules = <<>>
    /\ contributedRows = <<>>
    /\ programData = ProgramData(rawSessions, abstractModules, contributedRows)
    /\ route = OnProgram
    /\ talkData = NotFound
    /\ talkDataSrc = NotFound
    /\ slugCall = IdleCall
    /\ icsFile = NoFile
    /\ query = <<>>
    /\ day = AllDays

LoaderNext == ClickTalkLink \/ BackToProgram

LoaderSpec == LoaderInit /\ [][LoaderNext]_vars

-----------------------------------------------------------------------------
(* The program page's search box and day selector *)

\* what is typed into the search box: nothing, blanks, lower and upper case
\* spellings of a talk title, a speaker and a title, padded, and no match
TypedQueries ==
    { <<>>, <<" ", " ">>, <<"t","b","d">>, <<"A","N","N">>, <<" ","f","l","o","w","s"," ">>,
      <<"s","e","t","s">>, <<"z","z","z">> }

FilterInit ==
    /\ \E a \in 0..MaxItems : \E b \in 0..(MaxItems - a) : \E c \in 0..(MaxItems - a - b) :
          /\ rawSessions \in [1..a -> LoaderPool]
          /\ abstractModules \in [1..b -> ExportBundlePool]
          /\ contributedRows \in [1..c -> ExportRowPool]
    /\ programData = ProgramData(rawSessions, abstractModules, contributedRows)
    /\ route = OnProgram
    /\ talkData = NotFound
    /\ talkDataSrc = NotFound
    /\ slugCall = IdleCall
    /\ icsFile = NoFile
    /\ query = <<>>
    /\ day = AllDays

\* onChange of the search box: setQuery(e.target.value)
SetQuery ==
    /\ \E q \in TypedQueries : query' = q
    /\ UNCHANGED <<rawSessions, abstractModules, contributedRows, programData,
                   route, talkData, talkDataSrc, slugCall, icsFile, day>>

\* onChange of the day selector: setDay(e.target.value), one of allDays
SetDay ==
    /\ \E d \in allDays : day' = d
    /\ UNCHANGED <<rawSessions, abstractModules, contributedRows, programData,
                   route, talkData, talkDataSrc, slugCall, icsFile, query>>

FilterNext == SetQuery \/ SetDay

FilterSpec == FilterInit /\ [][FilterNext]_vars

-----------------------------------------------------------------------------
(* Properties of the merged program *)

\* number of entries the contributed-talk loader appended to the program
ContributedTail == Len(contributed(rawSessions, abstractModules, contributedRows))

\* positions of the merged program that hold contributed-talk groups
ContributedPositions == (Len(programData) - ContributedTail + 1)..Len(programData)

\* C1: any two distinct entries of the merged program have different ids.
C1_UniqueIds ==
    \A i, j \in 1..Len(programData) :
        i # j => programData[i].id # programData[j].id

\* C2: every session at 1-based position i of a merged minisymposium m has the
\* id m.id + '-S' + i, whatever id the source session or the loader gave it.
C2_SessionIds ==
    \A m \in 1..Len(programData) :
        \A i \in 1..Len(programData[m].sessions) :
            programData[m].sessions[i].id
                = programData[m].id \o <<"-", "S">> \o NumberText(i)

\* a structured record whose session carried its own id has been merged
C2_Witness ==
    \E m \in 1..Len(rawSessions) :
        /\ Len(rawSessions[m].sessions) = 2
        /\ Truthy(rawSessions[m].sessions[1].id)
        /\ Truthy(rawSessions[m].id)
        /\ Len(programData[m].sessions) = 2
        /\ programData[m].id # rawSessions[m].id

\* slugified titles that a structured entry and an abstract bundle share
SharedTitles ==
    {slugify(programData[i].title) : i \in 1..Len(rawSessions)}
    \cap {slugify(bundleTitle(abstractModules[b])) :
            b \in {c \in 1..Len(abstractModules) : Truthy(bundleTitle(abstractModules[c]))}}

\* C3, as stated: a title shared by a structured entry and an abstract bundle
\* is the title of exactly one minisymposium of the merged program.
C3_ExactlyOne ==
    \A key \in SharedTitles :
        Cardinality({i \in 1..Len(programData) : slugify(programData[i].title) = key}) = 1

\* C3, amended: for a title shared by a structured entry and an abstract bundle,
\* the merged program holds one minisymposium per structured record with that
\* title and none made from a bundle: outside the contributed groups, the
\* entries with that title are exactly the structured positions with it.
C3_OnePerStructuredRecord ==
    \A key \in SharedTitles :
        {i \in 1..Len(programData) \ ContributedPositions :
            slugify(programData[i].title) = key}
        = {i \in 1..Len(rawSessions) :
            slugify(Or(Or(rawSessions[i].minisymposium_title, rawSessions[i].title),
                       programData[i].title)) = key}

\* two bundles and one structured record share a title; one entry has it
C3_Witness ==
    /\ Len(rawSessions) = 1
    /\ Len(abstractModules) = 2
    /\ \A b \in 1..2 : slugify(bundleTitle(abstractModules[b])) = slugify(GraphTheory)
    /\ slugify(programData[1].title) = slugify(GraphTheory)
    /\ Len(programData) = 1

\* C4: a structured minisymposium carries its record's organizers when the
\* record has any; otherwise those of the abstract bundle with the same
\* slugified title (the last such bundle); otherwise none.
C4_OrganizerPrecedence ==
    \A i \in 1..Len(rawSessions) :
        LET key == slugify(programData[i].title)
            hits == {b \in 1..Len(abstractModules) :
                        /\ Truthy(bundleTitle(abstractModules[b]))
                        /\ slugify(bundleTitle(abstractModules[b])) = key}
        IN  programData[i].organizers =
                IF Len(rawSessions[i].organizers) > 0 THEN rawSessions[i].organizers
                ELSE IF hits # {}
                     THEN abstractModules[CHOOSE b \in hits : \A c \in hits : c <= b].organizers
                     ELSE <<>>

\* the scenario: structured 'Graph Theory' without organizers, a bundle
\* 'Graph Theory' with organizers, one merged entry with the bundle's organizers
C4_Witness ==
    /\ Len(rawSessions) = 1
    /\ rawSessions[1].minisymposium_title = GraphTheory
    /\ rawSessions[1].organizers = <<>>
    /\ Len(abstractModules) = 1
    /\ abstractModules[1].minisymposium_title = GraphTheory
    /\ abstractModules[1].organizers = <<Ann>>
    /\ Cardinality({i \in 1..Len(programData) : programData[i].title = GraphTheory}) = 1
    /\ programData[1].organizers = <<Ann>>

\* a row the exclusion lists name: its trimmed title, or its joined name
Excluded(r) ==
    \/ trim(Or(r.Title, <<>>)) \in {MovedTitle1, MovedTitle2, MovedTitle3, MovedTitle4}
    \/ trim(Or(r.FirstName, <<>>) \o <<" ">> \o Or(r.LastName, <<>>)) = YingliLi

\* talks of the contributed groups of the merged program
ContributedGroupTalks ==
    UNION {UNION {{programData[i].sessions[s].talks[t] :
                      t \in 1..Len(programData[i].sessions[s].talks)} :
                  s \in 1..Len(programData[i].sessions)} :
           i \in ContributedPositions}

\* C5: no talk of a contributed group comes from a row whose title is on the
\* exclusion title list or whose joined name is on the exclusion speaker list.
C5_ExcludedRowsAbsent ==
    \A k \in 1..Len(contributedRows) :
        Excluded(contributedRows[k]) =>
            \A t \in ContributedGroupTalks :
                ~ /\ t.title = trim(Or(contributedRows[k].Title, <<>>))
                  /\ \E p \in 1..Len(t.speakers) :
                        t.speakers[p].name
                          = trim(Or(contributedRows[k].FirstName, <<>>) \o <<" ">>
                                 \o Or(contributedRows[k].LastName, <<>>))

\* an excluded title, the excluded speaker and a kept row were loaded together
C5_Witness ==
    /\ \E k \in 1..Len(contributedRows) :
          trim(contributedRows[k].Title) = MovedTitle1
    /\ \E k \in 1..Len(contributedRows) :
          contributedRows[k].FirstName \o <<" ">> \o contributedRows[k].LastName = YingliLi
    /\ ContributedTail = 3
    /\ Cardinality(ContributedGroupTalks) = 1

-----------------------------------------------------------------------------
(* Properties of slugify *)

\* the units of s that are in [a-z0-9], in order
Alnums(s) == SelectSeq(s, IsAlnum)

\* only a-z, 0-9 and '-', no hyphen first or last, no two hyphens in a row
WellFormedSlug(s) ==
    /\ \A i \in 1..Len(s) : IsAlnum(s[i]) \/ s[i] = "-"
    /\ s # <<>> => s[1] # "-" /\ s[Len(s)] # "-"
    /\ \A i \in 1..(Len(s) - 1) : ~(s[i] = "-" /\ s[i + 1] = "-")

\* C6: slugify(slugify(x)) = slugify(x), in the merger's copy and the lookup's.
C6_Idempotent ==
    slugCall.phase = 2 =>
        /\ slugCall.z = slugCall.y
        /\ slugCall.zTalk = slugCall.yTalk

\* slugify has been applied twice to a string it changes
C6_Witness ==
    /\ slugCall.phase = 2
    /\ slugCall.x = <<" ", "B", "!">>
    /\ slugCall.y = <<"b">>

C8_EmptyForMissing ==
    (slugCall.phase >= 1 /\ slugCall.x \in {<<>>, Null, Undefined}) =>
        /\ slugCall.y = <<>>
        /\ slugCall.yTalk = <<>>

-----------------------------------------------------------------------------
(* Properties of the talk lookup *)

\* the resolution rule of C9 for a candidate list c, a disambiguator ms and a result r
Resolves(c, ms, r) ==
    LET exact == {k \in 1..Len(c) : slugifyTalk(Or(c[k].msTitle, <<>>)) = ms}
    IN  IF Len(c) = 0 THEN r = NotFound
        ELSE IF Len(c) = 1 THEN r = <<c[1]>>
        ELSE IF Truthy(ms) /\ exact # {}
             THEN r = <<c[CHOOSE k \in exact : \A j \in exact : k <= j]>>
             ELSE r = <<c[1]>>

\* C9: with C the indexed talks whose slug is the requested one: no candidate
\* gives not-found; one candidate gives it; several candidates and a supplied
\* ms slug give the candidate of that minisymposium; otherwise the first of C.
\* Stated of both TalkPage components, each over its own index.
C9_Resolution ==
    route.page = "talk" =>
        /\ Resolves(SelectSeq(allTalks(abstractModules, contributedRows),
                              LAMBDA t : t.slug = route.slug),
                    route.ms, talkData)
        /\ Resolves(SelectSeq(allTalksSrc(abstractModules), LAMBDA t : t.slug = route.slug),
                    route.ms, talkDataSrc)

\* C9 for the ms-aware TalkPage alone: its result follows the resolution rule.
C9_ResolutionMsAware ==
    route.page = "talk" =>
        Resolves(SelectSeq(allTalks(abstractModules, contributedRows),
                           LAMBDA t : t.slug = route.slug),
                 route.ms, talkData)

\* structured minisymposia that list a talk whose slug is the given one
StructuredWith(slug) ==
    {m \in 1..Len(rawSessions) :
        \E s \in 1..Len(programData[m].sessions) :
            \E t \in 1..Len(programData[m].sessions[s].talks) :
                slugify(programData[m].sessions[s].talks[t].title) = slug}

\* C10: the index holds the structured talks first: a talk of the structured
\* list is found, and without a disambiguator the talk returned for a slug is
\* the one of the first structured minisymposium that lists it.
C10_StructuredFirst ==
    (route.page = "talk" /\ route.ms = Null /\ StructuredWith(route.slug) # {}) =>
        /\ talkData # NotFound
        /\ LET first == CHOOSE m \in StructuredWith(route.slug) :
                            \A n \in StructuredWith(route.slug) : m <= n
           IN  talkData[1].msTitle = programData[first].title

-----------------------------------------------------------------------------
(* Properties of the calendar exporter *)

\* the lines of an exported text: the pieces between CRLF pairs
Lines(text) ==
    LET breaks == {i \in 1..(Len(text) - 1) : text[i] = "\r" /\ text[i + 1] = "\n"}
        nth(k) == CHOOSE b \in breaks : Cardinality({c \in breaks : c <= b}) = k
        from(k) == IF k = 1 THEN 1 ELSE nth(k - 1) + 2
        to(k) == IF k = Cardinality(breaks) + 1 THEN Len(text) ELSE nth(k) - 1
    IN  [k \in 1..(Cardinality(breaks) + 1) |-> SubSeq(text, from(k), to(k))]

\* the minisymposium and the session the last export was asked for
ExportedMs == programData[icsFile.m]

ExportedSession == ExportedMs.sessions[icsFile.s]

TalksOf(ms) == flat([k \in 1..Len(ms.sessions) |-> ms.sessions[k].talks])

\* C11: an exported calendar starts with BEGIN:VCALENDAR and ends with
\* END:VCALENDAR; between them BEGIN:VEVENT and END:VEVENT alternate strictly,
\* starting with BEGIN; the number of events is sessions plus talks for a
\* minisymposium export and one plus the session's talks for a session export.
C11_CalendarShape ==
    icsFile.kind # "none" =>
      LET ls == Lines(icsFile.text)
          marks == SelectSeq(ls, LAMBDA l : l \in {BeginEvent, EndEvent})
          events == IF icsFile.kind = "minisymposium"
                    THEN Len(ExportedMs.sessions) + Len(TalksOf(ExportedMs))
                    ELSE 1 + Len(ExportedSession.talks)
      IN  /\ ls[1] = BeginCalendar
          /\ ls[Len(ls)] = EndCalendar
          /\ Len(marks) = 2 * events
          /\ \A k \in 1..Len(marks) :
                marks[k] = (IF k % 2 = 1 THEN BeginEvent ELSE EndEvent)

\* a minisymposium of two sessions and two talks has been exported
C11_Witness ==
    /\ icsFile.kind = "minisymposium"
    /\ Len(ExportedMs.sessions) = 2
    /\ Len(TalksOf(ExportedMs)) = 2

\* C12: no line of an exported calendar carries a raw comma or a raw line
\* feed: every free-text field (minisymposium title in the session SUMMARY,
\* talk title, speaker names, room, chair) has its commas written as \, and
\* its line feeds as \n.
C12_FreeTextEscaped ==
    icsFile.kind # "none" =>
      \A l \in {Lines(icsFile.text)[k] : k \in 1..Len(Lines(icsFile.text))} :
         \A i \in 1..Len(l) :
            /\ l[i] # "\n"
            /\ l[i] = "," => (i > 1 /\ l[i - 1] = "\\")

-----------------------------------------------------------------------------
(* Properties of the contributed-talk groups and of the final order *)

\* C13: a talk of a contributed group has no speaker without a name (a row
\* with a title and no first or last name gives an empty speakers list), and
\* its speakers list is the one the talk lookup indexes for a row of that title.
C13_NamelessRowNoSpeakers ==
    \A t \in ContributedGroupTalks :
        /\ \A p \in 1..Len(t.speakers) : t.speakers[p].name # <<>>
        /\ \E k \in 1..Len(contributedRows) :
              /\ hasTitle(contributedRows[k])
              /\ rowEntry(contributedRows[k]).title = t.title
              /\ rowEntry(contributedRows[k]).speakers = t.speakers

-----------------------------------------------------------------------------
(* Properties of the display day *)

\* the calendar date of a timestamp in UTC, as YYYY-MM-DD
UtcDate(iso) == SubSeq(toISOString(DateOf(iso)), 1, 10)

\* the earliest of a non-empty set of YYYY-MM-DD dates
EarliestDate(dates) == CHOOSE d \in dates : \A e \in dates : DateOf(d) <= DateOf(e)

\* the start times a merged minisymposium shows: its sessions' and its talks'
ShownStarts(ms) ==
    {ms.sessions[s].start : s \in 1..Len(ms.sessions)}
    \cup UNION {{ms.sessions[s].talks[t].start : t \in 1..Len(ms.sessions[s].talks)} :
                s \in 1..Len(ms.sessions)}

\* the start times a structured record declares, before any placeholder
DeclaredStarts(rec) ==
    LET ss == sessionsArray(rec)
    IN  {ss[s].start : s \in 1..Len(ss)}
        \cup UNION {{ss[s].talks[t].start : t \in 1..Len(ss[s].talks)} : s \in 1..Len(ss)}

\* C14 as stated: the day of every merged minisymposium is the earliest UTC
\* calendar date among the start times of its sessions and talks in the merged
\* output, and 2025-10-11 when there is none.
C14_DayIsEarliestUtcDate ==
    \A m \in 1..Len(programData) :
        LET given == {x \in ShownStarts(programData[m]) : Truthy(x)}
        IN  programData[m].day
              = (IF given = {} THEN TEMP_DAY_OVERRIDE
                 ELSE EarliestDate({UtcDate(x) : x \in given}))

\* C14 as the merger computes it: for a structured record the day is the
\* earliest date as written (the first ten characters) among the start times
\* the record itself declares, placeholders not counted, and 2025-10-11 when
\* it declares none; every abstract-only minisymposium and every contributed
\* group has the day 2025-10-11.
C14_DayIsEarliestWrittenDate ==
    \A m \in 1..Len(programData) :
        LET given == IF m <= Len(rawSessions)
                     THEN {x \in DeclaredStarts(rawSessions[m]) : Truthy(x)}
                     ELSE {}
        IN  programData[m].day
              = (IF given = {} THEN TEMP_DAY_OVERRIDE
                 ELSE EarliestDate({SubSeq(x, 1, 10) : x \in given}))

\* a structured record whose only declared start is written on 2025-10-12 and
\* falls on 2025-10-11 in UTC, its session start filled with the placeholder
C14_Witness ==
    \E m \in 1..Len(rawSessions) :
        /\ {x \in DeclaredStarts(rawSessions[m]) : Truthy(x)} = {EarlyParis}
        /\ programData[m].sessions[1].start = TEMP_SESSION_START
        /\ programData[m].day # UtcDate(EarlyParis)

-----------------------------------------------------------------------------
(* Properties of missing optional data *)

\* C15: whatever optional field a source leaves out, the merged program and
\* the lookup index hold a default in its place, never the missing value
\* itself: organizers, sessions, talks and speakers are lists, room, chair and
\* talk times are null or text, session times and timezone are text, a talk's
\* title and abstract are text; every structured record is in the program,
\* also one without talks.
C15_DefaultsForAbsent ==
    /\ Len(programData) >= Len(rawSessions)
    /\ \A m \in 1..Len(programData) :
          /\ programData[m].room # Undefined
          /\ Truthy(programData[m].timezone)
          /\ Len(programData[m].sessions) >= 1
          /\ \A s \in 1..Len(programData[m].sessions) :
                LET session == programData[m].sessions[s]
                IN  /\ Truthy(session.start) /\ Truthy(session.end)
                    /\ session.chair # Undefined
                    /\ \A t \in 1..Len(session.talks) :
                          /\ session.talks[t].start # Undefined
                          /\ session.talks[t].end # Undefined
                          /\ session.talks[t].title # Undefined
    /\ \A k \in 1..Len(allTalks(abstractModules, contributedRows)) :
          LET entry == allTalks(abstractModules, contributedRows)[k]
          IN  /\ entry.title # Undefined
              /\ entry.abstract # Undefined
              /\ entry.slug # UndefinedText

-----------------------------------------------------------------------------
(* Properties of the exported times *)

\* The UTC form YYYYMMDDTHHMMSSZ of a timestamp written as
\* YYYY-MM-DDTHH:MM:SS followed by Z or by +hh:mm / -hh:mm, worked out on the
\* written fields: the offset is taken off the time of day and the day moves
\* by one when that crosses midnight (days 2 to 27 of a month).
UtcStamp(iso) ==
    LET offset == IF iso[20] = "Z" THEN 0
                  ELSE (IF iso[20] = "-" THEN -1 ELSE 1)
                       * (ParseDigits(SubSeq(iso, 21, 22)) * 60
                          + ParseDigits(SubSeq(iso, 24, 25)))
        minutes == ParseDigits(SubSeq(iso, 12, 13)) * 60
                   + ParseDigits(SubSeq(iso, 15, 16)) - offset + 1440
    IN  SubSeq(iso, 1, 4) \o SubSeq(iso, 6, 7)
        \o Pad2(ParseDigits(SubSeq(iso, 9, 10)) + (minutes \div 1440) - 1)
        \o <<"T">> \o Pad2((minutes % 1440) \div 60) \o Pad2(minutes % 60)
        \o SubSeq(iso, 18, 19) \o <<"Z">>

\* of the given timestamps, the one whose UTC form is least, or greatest
EarliestOf(stamps) ==
    CHOOSE x \in stamps : \A y \in stamps : ~TextLess(UtcStamp(y), UtcStamp(x))

LatestOf(stamps) ==
    CHOOSE x \in stamps : \A y \in stamps : ~TextLess(UtcStamp(x), UtcStamp(y))

TimesOfTalks(talks) == [t \in 1..Len(talks) |-> [start |-> talks[t].start, end |-> talks[t].end]]

\* the times a session shows with its talks' times, the earliest start and the
\* latest end
BoundsOf(session) ==
    LET starts == {x \in {session.start}
                         \cup {session.talks[t].start : t \in 1..Len(session.talks)} :
                     Truthy(x)}
        ends == {x \in {session.end} \cup {session.talks[t].end : t \in 1..Len(session.talks)} :
                   Truthy(x)}
    IN  [start |-> IF starts = {} THEN Null ELSE EarliestOf(starts),
         end |-> IF ends = {} THEN Null ELSE LatestOf(ends)]

\* for each event of the last export, in order, the timestamps it stands for:
\* a session's own times in a minisymposium export, its times taken together
\* with its talks' in a session export, and each talk's own times
EventTimes ==
    IF icsFile.kind = "minisymposium"
    THEN flat([s \in 1..Len(ExportedMs.sessions) |->
                 <<[start |-> ExportedMs.sessions[s].start,
                    end |-> ExportedMs.sessions[s].end]>>
                 \o TimesOfTalks(ExportedMs.sessions[s].talks)])
    ELSE <<BoundsOf(ExportedSession)>> \o TimesOfTalks(ExportedSession.talks)

\* the values of the property `key` inside the k-th event of the lines ls
ValuesIn(ls, k, key) ==
    LET begins == {i \in 1..Len(ls) : ls[i] = BeginEvent}
        from == CHOOSE b \in begins : Cardinality({c \in begins : c <= b}) = k
        to == CHOOSE e \in from..Len(ls) :
                 ls[e] = EndEvent /\ \A j \in from..(e - 1) : ls[j] # EndEvent
        body == SubSeq(ls, from, to)
        with == SelectSeq(body, LAMBDA l : Len(l) >= Len(key) /\ SubSeq(l, 1, Len(key)) = key)
    IN  [j \in 1..Len(with) |-> SubSeq(with[j], Len(key) + 1, Len(with[j]))]

\* C16: every DTSTART and DTEND value of an exported calendar is the UTC form
\* of the start, or end, timestamp of the session or talk its event stands
\* for, whatever timezone the minisymposium declares.
C16_UtcInstants ==
    icsFile.kind # "none" =>
      \A k \in 1..Len(EventTimes) :
         LET dtstart == ValuesIn(Lines(icsFile.text), k, DtStartKey)
             dtend == ValuesIn(Lines(icsFile.text), k, DtEndKey)
         IN  /\ \A j \in 1..Len(dtstart) :
                   /\ Truthy(EventTimes[k].start)
                   /\ dtstart[j] = UtcStamp(EventTimes[k].start)
             /\ \A j \in 1..Len(dtend) :
                   /\ Truthy(EventTimes[k].end)
                   /\ dtend[j] = UtcStamp(EventTimes[k].end)

\* the same for the events of sessions and talks that have the timestamp:
\* exactly one value, the UTC form of that timestamp
C16_UtcRenderingOfGivenTimes ==
    icsFile.kind # "none" =>
      \A k \in 1..Len(EventTimes) :
         /\ Truthy(EventTimes[k].start) =>
               ValuesIn(Lines(icsFile.text), k, DtStartKey) = <<UtcStamp(EventTimes[k].start)>>
         /\ Truthy(EventTimes[k].end) =>
               ValuesIn(Lines(icsFile.text), k, DtEndKey) = <<UtcStamp(EventTimes[k].end)>>

\* 10:10 at -05:00 is 15:10Z of the same date
C16_Scenario == UtcStamp(Stamp(11, 10, 10)) = <<"2","0","2","5","1","0","1","1","T","1","5","1","0","0","0","Z">>

-----------------------------------------------------------------------------
(* Properties of the final order, the final ids and the contributed groups *)

\* the bundles that have a title no structured entry of the program has
AbstractOnlyBundles ==
    LET structured == {slugify(programData[i].title) : i \in 1..Len(rawSessions)}
    IN  SelectSeq(abstractModules,
                  LAMBDA b : /\ Truthy(bundleTitle(b))
                             /\ slugify(bundleTitle(b)) \notin structured)

\* the three groups 'Contributed Talks 1', '... 2', '... 3' end the program
GroupsPresent ==
    /\ Len(programData) >= 3
    /\ \A n \in 1..3 :
          /\ programData[Len(programData) - 3 + n].title
               = ContributedTalksTitle \o <<" ">> \o NumberText(n)
          /\ programData[Len(programData) - 3 + n].id = <<"C", "T">> \o NumberText(n)

TalkTitles(talks) == [t \in 1..Len(talks) |-> talks[t].title]

\* the talk titles of the source of the entry at position m, in source order:
\* of the m-th structured record, or of the abstract-only bundle after them
SourceTalkTitles(bundles, m) ==
    IF m <= Len(rawSessions)
    THEN TalkTitles(flat([s \in 1..Len(sessionsArray(rawSessions[m])) |->
                            sessionsArray(rawSessions[m])[s].talks]))
    ELSE TalkTitles(bundles[m - Len(rawSessions)].talks)

\* C17: the program lists the structured entries in record order, then the
\* abstract-only entries in bundle order, then the contributed groups 1, 2, 3;
\* nothing else is in it, nothing is missing and nothing is repeated.
C17_FinalOrder ==
    LET bundles == AbstractOnlyBundles
        ahead == Len(rawSessions) + Len(bundles)
    IN  /\ Len(programData) >= ahead
        /\ \A i \in 1..Len(rawSessions) :
              programData[i].title
                = Or(Or(rawSessions[i].minisymposium_title, rawSessions[i].title),
                     DefaultTitlePrefix \o NumberText(i))
        /\ \A j \in 1..Len(bundles) :
              programData[Len(rawSessions) + j].title = bundleTitle(bundles[j])
        /\ \A m \in 1..ahead :
              TalkTitles(TalksOf(programData[m])) = SourceTalkTitles(bundles, m)
        /\ \/ Len(programData) = ahead
           \/ Len(programData) = ahead + 3 /\ GroupsPresent

\* a structured entry, an abstract-only entry and the three groups, in a row
C17_Witness ==
    /\ Len(rawSessions) = 1
    /\ Len(AbstractOnlyBundles) = 1
    /\ Len(programData) = 5
    /\ GroupsPresent

\* C18: the n-th entry that is not a group of the contributed-talk loader has
\* the id MS<n>, whatever id it was loaded with; the loader's groups, and only
\* they, keep the id they were built with.
C18_SequentialCodes ==
    \A p \in 1..Len(programData) :
        IF p \in ContributedPositions
        THEN programData[p].id = <<"C", "T">> \o NumberText(p - Len(programData) + 3)
        ELSE programData[p].id = <<"M", "S">> \o NumberText(p)

\* the table has a row with a title; no structured entry is titled like
\* 'Contributed Talks'
HasTitledRow ==
    \E k \in 1..Len(contributedRows) :
        Truthy(contributedRows[k].Title) /\ trim(contributedRows[k].Title) # <<>>

NoStructuredContributedTalks ==
    LET key == slugify(ContributedTalksTitle)
    IN  \A i \in 1..Len(rawSessions) : slugify(programData[i].title) # key

\* C20: the contributed groups are in the program exactly when the table has
\* a row with a title and no structured entry has a title that slugifies like
\* 'Contributed Talks'; when a structured entry has that title the program is
\* the structured and the abstract-only entries and nothing else.
C20_GroupsIffNoStructuredEntry ==
    LET free == NoStructuredContributedTalks
        bundles == AbstractOnlyBundles
    IN  /\ GroupsPresent <=> (HasTitledRow /\ free)
        /\ ~free =>
              /\ Len(programData) = Len(rawSessions) + Len(bundles)
              /\ \A m \in 1..Len(programData) :
                    TalkTitles(TalksOf(programData[m])) = SourceTalkTitles(bundles, m)

\* a structured entry titled 'Contributed Talks' and a table with a titled row
C20_Witness ==
    /\ ~NoStructuredContributedTalks
    /\ HasTitledRow
    /\ ~GroupsPresent

-----------------------------------------------------------------------------
(* Properties of the capacity of the contributed groups *)

\* the rows that pass the empty-title filter and the exclusion lists, in row order
SurvivingRows ==
    SelectSeq(contributedRows, LAMBDA r : hasTitle(r) /\ ~Excluded(r))

\* the number of hard-coded time slots
SlotCount == Len(flat(slotTimes))

\* the titles of the talks of the contributed groups, group after group
PlacedTitles ==
    TalkTitles(flat([g \in 1..ContributedTail |->
                       TalksOf(programData[Len(programData) - ContributedTail + g])]))

\* C19: unless a structured entry takes the place of the contributed groups,
\* the talks of the groups are, in row order, the surviving rows up to the
\* number of hard-coded time slots, each of them once; only rows beyond that
\* number are left out.
C19_PlacedUpToSlotCount ==
    NoStructuredContributedTalks =>
       PlacedTitles
         = [k \in 1..(IF Len(SurvivingRows) < SlotCount THEN Len(SurvivingRows)
                      ELSE SlotCount) |->
              trim(SurvivingRows[k].Title)]

\* the same with the twelve places of the three groups for the slot count
C19_PlacedUpToTwelve ==
    NoStructuredContributedTalks =>
       PlacedTitles
         = [k \in 1..(IF Len(SurvivingRows) < 12 THEN Len(SurvivingRows) ELSE 12) |->
              trim(SurvivingRows[k].Title)]

-----------------------------------------------------------------------------
(* Properties of the structured loader *)

\* the merged talk is the source talk with absent times read as null
SameTalk(merged, source) ==
    /\ merged.title = source.title
    /\ merged.speakers = source.speakers
    /\ merged.start = (IF Truthy(source.start) THEN source.start ELSE Null)
    /\ merged.end = (IF Truthy(source.end) THEN source.end ELSE Null)

\* the merged talks are the source talks, one for one and in the same order
SameTalks(merged, source) ==
    /\ Len(merged) = Len(source)
    /\ \A k \in 1..Len(source) : SameTalk(merged[k], source[k])

\* the placeholder where the source declares nothing
OrPlaceholder(v, placeholder) == IF Truthy(v) THEN v ELSE placeholder

\* a record with a non-empty sessions array yields exactly those sessions
SessionsKept(rec, ms) ==
    /\ Len(ms.sessions) = Len(rec.sessions)
    /\ \A k \in 1..Len(rec.sessions) :
          /\ SameTalks(ms.sessions[k].talks, rec.sessions[k].talks)
          /\ ms.sessions[k].start = OrPlaceholder(rec.sessions[k].start, TEMP_SESSION_START)
          /\ ms.sessions[k].end = OrPlaceholder(rec.sessions[k].end, TEMP_SESSION_END)

\* C21: a structured record without sessions yields exactly one session that
\* wraps the record's flat talks in their order, with the placeholder start
\* and end; a record with sessions yields exactly those sessions in order,
\* with every talk of theirs.
C21_LegacyPlaceholderTiming ==
    \A i \in 1..Len(rawSessions) :
       IF Len(rawSessions[i].sessions) = 0
       THEN /\ Len(programData[i].sessions) = 1
            /\ SameTalks(programData[i].sessions[1].talks, rawSessions[i].talks)
            /\ programData[i].sessions[1].start = TEMP_SESSION_START
            /\ programData[i].sessions[1].end = TEMP_SESSION_END
       ELSE SessionsKept(rawSessions[i], programData[i])

\* C21, amended: the one session of a record without sessions takes the
\* record's own start, end and chair where it declares them, and the
\* placeholder start and end where it does not.
C21_LegacyOwnTimingOrPlaceholder ==
    \A i \in 1..Len(rawSessions) :
       IF Len(rawSessions[i].sessions) = 0
       THEN /\ Len(programData[i].sessions) = 1
            /\ SameTalks(programData[i].sessions[1].talks, rawSessions[i].talks)
            /\ programData[i].sessions[1].start
                  = OrPlaceholder(rawSessions[i].start, TEMP_SESSION_START)
            /\ programData[i].sessions[1].end
                  = OrPlaceholder(rawSessions[i].end, TEMP_SESSION_END)
            /\ programData[i].sessions[1].chair
                  = OrPlaceholder(rawSessions[i].chair, Null)
       ELSE SessionsKept(rawSessions[i], programData[i])

\* the three shapes side by side: flat talks without times, flat talks under
\* a start and an end of the record, and two sessions next to a flat list
C21_Witness ==
    /\ \E i \in 1..Len(rawSessions) :
          /\ Len(rawSessions[i].sessions) = 0
          /\ Len(rawSessions[i].talks) = 2
          /\ ~Truthy(rawSessions[i].start)
    /\ \E i \in 1..Len(rawSessions) :
          /\ Len(rawSessions[i].sessions) = 0
          /\ Len(rawSessions[i].talks) = 2
          /\ Truthy(rawSessions[i].start)
    /\ \E i \in 1..Len(rawSessions) :
          /\ Len(rawSessions[i].sessions) = 2
          /\ Len(rawSessions[i].talks) = 3

-----------------------------------------------------------------------------
(* Properties of the abstract-only synthesis *)

\* the entry is one session with the placeholder times that holds the
\* bundle's talks in order, none of them timed
SynthesizedFrom(ms, b) ==
    /\ ms.title = bundleTitle(b)
    /\ ms.day = TEMP_DAY_OVERRIDE
    /\ Len(ms.sessions) = 1
    /\ ms.sessions[1].start = TEMP_SESSION_START
    /\ ms.sessions[1].end = TEMP_SESSION_END
    /\ Len(ms.sessions[1].talks) = Len(b.talks)
    /\ \A k \in 1..Len(b.talks) :
          /\ ms.sessions[1].talks[k].title = b.talks[k].title
          /\ ms.sessions[1].talks[k].speakers = b.talks[k].speakers
          /\ ms.sessions[1].talks[k].start = Null
          /\ ms.sessions[1].talks[k].end = Null

\* C22: every bundle whose title slugifies to no structured title becomes
\* exactly one entry of the program, placed after the structured entries in
\* bundle order: one session with the placeholder start and end, the fallback
\* day, and the bundle's talks in order with start and end null.  A bundle
\* without a title, or with a structured title, adds no entry.
C22_AbstractOnlySynthesis ==
    LET bundles == AbstractOnlyBundles
    IN  /\ Len(programData) = Len(rawSessions) + Len(bundles) + ContributedTail
        /\ \A j \in 1..Len(bundles) :
              SynthesizedFrom(programData[Len(rawSessions) + j], bundles[j])

\* after one structured entry: an abstract-only bundle of two talks, and a
\* bundle that adds no entry
C22_Witness ==
    /\ Len(rawSessions) = 1
    /\ Len(abstractModules) = 2
    /\ Len(AbstractOnlyBundles) = 1
    /\ Len(AbstractOnlyBundles[1].talks) = 2
    /\ Len(programData[2].sessions[1].talks) = 2

-----------------------------------------------------------------------------
(* Properties of the rows without a title *)

\* the row has no title, or a title of white space only
BlankTitle(r) ==
    \/ r.Title \in {Null, Undefined}
    \/ \A i \in 1..Len(r.Title) : r.Title[i] \in WhiteSpace

\* the table without its rows of no title
TitledOnly == SelectSeq(contributedRows, LAMBDA r : ~BlankTitle(r))

\* C23: a row with an empty or blank title is dropped: the program and the
\* lookup index are what they are for the table without such rows, so that
\* the other rows keep their places; no talk of a contributed group and no
\* entry of the index has an empty title, nor has any lookup result.
C23_BlankRowsDiscarded ==
    /\ programData = ProgramData(rawSessions, abstractModules, TitledOnly)
    /\ allTalks(abstractModules, contributedRows) = allTalks(abstractModules, TitledOnly)
    /\ Len(allTalks(abstractModules, contributedRows))
         = Len(allBundleEntries(abstractModules)) + Len(TitledOnly)
    /\ \A g \in ContributedPositions :
          \A k \in 1..Len(TalksOf(programData[g])) :
             TalksOf(programData[g])[k].title # <<>>
    /\ talkData # NotFound => talkData[1].title # <<>>

\* a blank-titled row among the first four of a table that fills more than
\* one group, and a talk of the second group looked up
C23_Witness ==
    /\ \E k \in 1..4 : k <= Len(contributedRows) /\ BlankTitle(contributedRows[k])
    /\ Len(TitledOnly) >= 6
    /\ ContributedTail = 3
    /\ talkData # NotFound
    /\ \E k \in 1..Len(TalksOf(programData[2])) :
          slugify(TalksOf(programData[2])[k].title) = route.slug

-----------------------------------------------------------------------------
(* Properties of the cancelled flag *)

\* the row's presentation type carries the marker
MarkedCancelled(r) == includes(Or(r.PresentationType, <<>>), CancelledMarker)

\* t.cancelled === true, for a talk that may have no such property
IsCancelled(t) == "cancelled" \in DOMAIN t /\ t.cancelled = TRUE

\* the rows whose talks the contributed groups hold, in row order
PlacedRows ==
    SubSeq(SurvivingRows, 1, Len(PlacedTitles))

\* the talks of the contributed groups, group after group
PlacedTalks ==
    flat([g \in 1..ContributedTail |->
            TalksOf(programData[Len(programData) - ContributedTail + g])])

\* the lookup index gives a row's talk the flag of the row, and a bundle's
\* talk the flag of the bundle
C24_LookupCancelled ==
    LET index == allTalks(abstractModules, contributedRows)
        bundled == flat([b \in 1..Len(abstractModules) |-> abstractModules[b].talks])
        titled == SelectSeq(contributedRows, LAMBDA r : ~BlankTitle(r))
    IN  /\ Len(index) = Len(bundled) + Len(titled)
        /\ \A k \in 1..Len(bundled) : IsCancelled(index[k]) <=> bundled[k].cancelled
        /\ \A k \in 1..Len(titled) :
              IsCancelled(index[Len(bundled) + k]) <=> MarkedCancelled(titled[k])

\* C24: a talk made from a contributed row is cancelled exactly when the
\* row's presentation type contains CANCELLED, in the lookup index and in the
\* contributed group of the program; a bundle's talk has the bundle's flag.
C24_CancelledFlag ==
    /\ C24_LookupCancelled
    /\ \A k \in 1..Len(PlacedTalks) :
          IsCancelled(PlacedTalks[k]) <=> MarkedCancelled(PlacedRows[k])

-----------------------------------------------------------------------------
(* Properties of the session bounds of the exports *)

\* the place, among the events of a minisymposium export, of session s
SessionEventIndex(ms, s) ==
    s + Len(flat([j \in 1..(s - 1) |-> ms.sessions[j].talks]))

\* the session's own time when it has one, else the earliest start, or the
\* latest end, of its talks, else nothing
DeclaredOrInferred(session) ==
    [start |-> IF Truthy(session.start) THEN session.start ELSE BoundsOf(session).start,
     end |-> IF Truthy(session.end) THEN session.end ELSE BoundsOf(session).end]

\* the k-th event of the lines ls gives the session these bounds
SessionEventHas(ls, k, bounds) ==
    /\ ValuesIn(ls, k, DtStartKey)
         = (IF bounds.start = Null THEN <<>> ELSE <<UtcStamp(bounds.start)>>)
    /\ ValuesIn(ls, k, DtEndKey)
         = (IF bounds.end = Null THEN <<>> ELSE <<UtcStamp(bounds.end)>>)

\* C25: in both exports the event of a session starts at the session's own
\* start when it has one, and at the earliest start of its talks otherwise,
\* and ends at its own end when it has one, and at the latest end of its talks
\* otherwise; talks that start before the session's own start, or end after
\* its own end, do not move the bounds.
C25_DeclaredBoundsUsed ==
    icsFile.kind # "none" =>
      LET ls == Lines(icsFile.text)
      IN  IF icsFile.kind = "session"
          THEN SessionEventHas(ls, 1, DeclaredOrInferred(ExportedSession))
          ELSE \A s \in 1..Len(ExportedMs.sessions) :
                  SessionEventHas(ls, SessionEventIndex(ExportedMs, s),
                                  DeclaredOrInferred(ExportedMs.sessions[s]))

\* the session export takes the earliest start and the latest end of the
\* session's and its talks' times taken together; the minisymposium export
\* takes the session's own times
C25_BoundsPerExporter ==
    icsFile.kind # "none" =>
      LET ls == Lines(icsFile.text)
      IN  IF icsFile.kind = "session"
          THEN SessionEventHas(ls, 1, BoundsOf(ExportedSession))
          ELSE \A s \in 1..Len(ExportedMs.sessions) :
                  SessionEventHas(ls, SessionEventIndex(ExportedMs, s),
                                  [start |-> ExportedMs.sessions[s].start,
                                   end |-> ExportedMs.sessions[s].end])

-----------------------------------------------------------------------------
(* Properties of the links from the program to the talk page *)

\* the talks of the program whose link is the address shown
LinkedTalks ==
    {t \in UNION {{TalksOf(programData[m])[k] : k \in 1..Len(TalksOf(programData[m]))} :
                     m \in {n \in 1..Len(programData) :
                               slugify(programData[n].title) = route.ms}} :
        slugify(t.title) = route.slug}

\* C26: the link the program gives a talk t of a minisymposium m leads to a
\* talk: the lookup for slugify(t.title) with slugify(m.title) is found and
\* has t's title and t's speakers, also when another minisymposium has a talk
\* of the same slug, when t is in the structured source only and when m is a
\* contributed group.
C26_LinkRoundTrip ==
    route.page = "talk" =>
       \A t \in LinkedTalks :
          /\ talkData # NotFound
          /\ talkData[1].title = t.title
          /\ talkData[1].speakers = t.speakers

-----------------------------------------------------------------------------
(* Properties of the UIDs of the exports *)

\* the UIDs of the events of the lines ls, event after event
UidsOf(ls) ==
    LET events == Cardinality({i \in 1..Len(ls) : ls[i] = BeginEvent})
    IN  [k \in 1..events |-> ValuesIn(ls, k, UidKey)]

\* the UIDs of one exported document are pairwise distinct
C27_DistinctWithinDocument ==
    icsFile.kind # "none" =>
      LET uids == UidsOf(Lines(icsFile.text))
      IN  \A i, j \in 1..Len(uids) : i # j => uids[i] # uids[j]

\* C27: the UIDs of one minisymposium export are pairwise distinct; the event
\* of a session, and the event of each of its talks, has the same UID in the
\* export of the session and in the export of its minisymposium; and the UID
\* the session export gives the session is not the UID the minisymposium
\* export gives another session.
C27_UidsConsistent ==
    /\ icsFile.kind = "minisymposium" => C27_DistinctWithinDocument
    /\ icsFile.kind = "session" =>
         LET own == UidsOf(Lines(icsFile.text))
             whole == UidsOf(Lines(createICS(ExportedMs)))
             at == SessionEventIndex(ExportedMs, icsFile.s)
         IN  /\ \A k \in 0..Len(ExportedSession.talks) : own[1 + k] = whole[at + k]
             /\ \A j \in 1..Len(ExportedMs.sessions) :
                   j # icsFile.s => own[1] # whole[SessionEventIndex(ExportedMs, j)]

-----------------------------------------------------------------------------
(* Properties of the session times of the program *)

\* the sessions of the program, entry after entry
AllSessions == flat([m \in 1..Len(programData) |-> programData[m].sessions])

\* every session of the program has a start and an end
C28_StartAndEndGiven ==
    \A k \in 1..Len(AllSessions) :
       /\ Truthy(AllSessions[k].start)
       /\ Truthy(AllSessions[k].end)

\* a session whose source declares both its start and its end, or neither,
\* does not start after it ends
C28_OrderedWhenBothOrNeither ==
    \A i \in 1..Len(rawSessions) :
       \A k \in 1..Len(sessionsArray(rawSessions[i])) :
          (Truthy(sessionsArray(rawSessions[i])[k].start)
             <=> Truthy(sessionsArray(rawSessions[i])[k].end))
          => DateOf(programData[i].sessions[k].start) <= DateOf(programData[i].sessions[k].end)

\* C28: every session of the program has a start and an end, and does not
\* start after it ends, also when its source declares only one of the two
\* and the other is the placeholder.
C28_StartNotAfterEnd ==
    /\ C28_StartAndEndGiven
    /\ \A k \in 1..Len(AllSessions) :
          DateOf(AllSessions[k].start) <= DateOf(AllSessions[k].end)

-----------------------------------------------------------------------------
(* Properties of the time slots of the contributed groups *)

\* the g-th contributed group of the program
Group(g) == programData[Len(programData) - ContributedTail + g]

\* every talk of every contributed group has a start and an end inside the
\* times of its session, and each talk ends when the next one starts
SlotsInsideSession ==
    \A g \in 1..ContributedTail :
       LET session == Group(g).sessions[1]
           talks == session.talks
       IN  /\ Len(talks) <= 4
           /\ \A j \in 1..Len(talks) :
                 /\ Truthy(talks[j].start)
                 /\ Truthy(talks[j].end)
                 /\ DateOf(session.start) <= DateOf(talks[j].start)
                 /\ DateOf(talks[j].start) < DateOf(talks[j].end)
                 /\ DateOf(talks[j].end) <= DateOf(session.end)
           /\ \A j \in 1..(Len(talks) - 1) :
                 DateOf(talks[j].end) = DateOf(talks[j + 1].start)

\* the surviving row k (from 0) is the talk at place k mod 4 of group k div 4 + 1
PlacedAt(k) ==
    /\ (k \div 4) + 1 <= ContributedTail
    /\ (k % 4) + 1 <= Len(TalksOf(Group((k \div 4) + 1)))
    /\ TalksOf(Group((k \div 4) + 1))[(k % 4) + 1].title = trim(SurvivingRows[k + 1].Title)

\* C29: in every contributed group each talk has a start and an end inside its
\* session's, consecutive talks meet without overlap, and the k-th surviving
\* row (from 0) is the talk at place k mod 4 of group floor(k/4) + 1.
C29_SlotTiming ==
    /\ SlotsInsideSession
    /\ NoStructuredContributedTalks =>
          \A k \in 0..(Len(SurvivingRows) - 1) : PlacedAt(k)

\* the same for the surviving rows that the three groups have room for
C29_SlotTimingOfFirstTwelve ==
    /\ SlotsInsideSession
    /\ NoStructuredContributedTalks =>
          \A k \in 0..(Len(SurvivingRows) - 1) : k < 12 => PlacedAt(k)

-----------------------------------------------------------------------------
(* Properties of the search and day filter *)

\* a is b with some elements left out
RECURSIVE TalksWithin(_, _)
TalksWithin(a, b) ==
    IF a = <<>> THEN TRUE
    ELSE IF b = <<>> THEN FALSE
    ELSE IF Head(a) = Head(b) THEN TalksWithin(Tail(a), Tail(b))
    ELSE TalksWithin(a, Tail(b))

\* the shown entry is the entry of the program with some talks left out of
\* its sessions and nothing else changed
ShownOf(shown, ms) ==
    /\ [shown EXCEPT !.sessions = <<>>] = [ms EXCEPT !.sessions = <<>>]
    /\ Len(shown.sessions) = Len(ms.sessions)
    /\ \A k \in 1..Len(ms.sessions) :
          /\ [shown.sessions[k] EXCEPT !.talks = <<>>] = [ms.sessions[k] EXCEPT !.talks = <<>>]
          /\ TalksWithin(shown.sessions[k].talks, ms.sessions[k].talks)

\* the shown list is the program with some entries left out
RECURSIVE EntriesWithin(_, _)
EntriesWithin(a, b) ==
    IF a = <<>> THEN TRUE
    ELSE IF b = <<>> THEN FALSE
    ELSE IF ShownOf(Head(a), Head(b)) THEN EntriesWithin(Tail(a), Tail(b))
    ELSE EntriesWithin(a, Tail(b))

\* the text is in the hay, whatever the case of either
FoundIn(text, hay) == includes(toLowerCase(hay), toLowerCase(text))

\* the words of an entry: its title and its organizers' names
WordsOfMs(ms) ==
    <<ms.title>> \o [k \in 1..Len(ms.organizers) |-> ms.organizers[k].name]

\* the words of a talk: its title and its speakers' names
WordsOfTalk(t) == <<t.title>> \o [k \in 1..Len(t.speakers) |-> t.speakers[k].name]

\* the words, those that are given, with one blank between them
Spaced(words) ==
    join(SelectSeq(words, LAMBDA w : w \notin {Null, Undefined}), <<" ">>)

\* the query, without the blanks around it, is found in the entry's title and
\* organizers or in the title and speakers of one of its talks
MatchesQuery(ms) ==
    \/ FoundIn(trim(query), Spaced(WordsOfMs(ms)))
    \/ \E k \in 1..Len(TalksOf(ms)) :
          FoundIn(trim(query), Spaced(WordsOfTalk(TalksOf(ms)[k])))

\* C30: whatever has been typed and selected, the shown list is the program
\* with entries left out, in the program's order and with its ids, and each
\* shown session has its talks with some left out, in their order; under a
\* query that is not blank an entry is shown only if the query is found,
\* whatever the case, in its title or organizers or in one of its talks; with
\* no query and the day 'all' the shown list is the program.
C30_FilterRestricts ==
    /\ EntriesWithin(filtered, programData)
    /\ trim(query) # <<>> =>
          \A i \in 1..Len(filtered) :
             \E m \in 1..Len(programData) :
                ShownOf(filtered[i], programData[m]) /\ MatchesQuery(programData[m])
    /\ (query = <<>> /\ day = AllDays) => filtered = programData

\* a query typed in another case and a day selected: an entry is left out, and
\* a shown entry has lost one of its two talks
C30_Witness ==
    /\ query = <<"t","b","d">>
    /\ day # AllDays
    /\ Len(filtered) > 0
    /\ Len(filtered) < Len(programData)
    /\ \E i \in 1..Len(filtered) : \E m \in 1..Len(programData) :
          /\ ShownOf(filtered[i], programData[m])
          /\ Len(TalksOf(filtered[i])) = 1
          /\ Len(TalksOf(programData[m])) = 2

====
